---- MODULE Spec2Model ----
(***************************************************************************)
(* A model of the caching and smart-default engine of xc-mcp:              *)
(*   - ResponseCache            (src/src/utils/command.ts, 370-512)        *)
(*   - executeCommandStreaming  (src/src/utils/command.ts, 72-147)         *)
(*   - resolveDestination       (src/unnamed/part_001, 321-448)            *)
(*   - the project preference cache (state/project-cache, not under src/)  *)
(*                                                                         *)
(* Conventions.  An optional value (undefined / null in the source) is a   *)
(* sequence of length at most one: None is <<>>, Some(x) is <<x>>.  A      *)
(* JavaScript string that the code inspects (includes, match, trim,        *)
(* toLowerCase, replace) is a sequence of one-character strings, so that   *)
(* those operations are computed and not assumed.  A JavaScript Map is a   *)
(* sequence in insertion order, which is the order Map iteration uses.     *)
(* Time is an integer clock; the source's durations are scaled to it.      *)
(***************************************************************************)
EXTENDS Integers, Sequences, FiniteSets, TLC

VARIABLES
    \* ---- ResponseCache and its persistence collaborator
    cache,             \* this.cache: the Map, as a sequence in insertion order
    now,               \* Date.now()
    issued,            \* the creation timestamps of the handles store has returned, in order
    enabled,           \* persistenceManager.isEnabled()
    load,              \* the constructor's loadPersistedState(): [status, data], status one of
                       \* "none", "loading", "done", "failed"; data is what loadState read
    disk,              \* what persistenceManager holds under the key 'responses'
    saveStateTimeout,  \* this.saveStateTimeout: a timer id, or 0 for null
    timers,            \* the pending setTimeout timers of persistStateDebounced: [id, due]
    nextTimer,         \* the id the next setTimeout returns
    saving             \* saveState calls in flight: [timer, payload]

cacheVars == <<cache, now, issued, enabled, load, disk,
               saveStateTimeout, timers, nextTimer, saving>>

\* ---- resolveDestination: one call, its inputs and its outcome
VARIABLES
    params,            \* [explicitDestination, preferredConfig, sdk, preferredSim, list]
    resolved           \* None before the call; then Some([destination, queried])

resolveVars == <<params, resolved>>

\* ---- executeCommandStreaming: one call
VARIABLES
    options,           \* [fatalPatterns, maxBuffer]: the options of the call
    stdout,            \* let stdout
    stderr,            \* let stderr
    timedOut,          \* let timedOut
    fatalMatch,        \* let fatalMatch: None is undefined
    child,             \* the child process: "running", "failed" (spawn error), "closed"
    killed,            \* child.kill() has been called
    timeoutId,         \* the timer of line 104 is pending
    promise,           \* the returned promise: [state, value, error]
    fatalCalls,        \* the arguments onFatalMatch was invoked with, in order
    nChunks            \* the 'data' events delivered so far

execVars == <<options, stdout, stderr, timedOut, fatalMatch, child, killed,
              timeoutId, promise, fatalCalls, nChunks>>

\* ---- the project preference cache
VARIABLES
    preferredBuildConfig,  \* per project: the preferred BuildConfig, or None
    buildHistory           \* per project: the retained outcome records, oldest first

prefVars == <<preferredBuildConfig, buildHistory>>

\* ---- xcodebuildBuildTool and the simulator cache it reports to
VARIABLES
    build,             \* the latest invocation: None, or Some([args, env, outcome, result])
    nBuilds,           \* the invocations made so far
    simulatorUsage     \* the recordSimulatorUsage calls, in order: [udid, projectPath]

buildVars == <<build, nBuilds, simulatorUsage>>

\* ---- extractBuildSummary: one call
VARIABLES
    summaryArgs,       \* [output, stderr, exitCode]: the arguments of the call
    summaryResult      \* None before the call; then Some(the summary returned)

summaryVars == <<summaryArgs, summaryResult>>

vars == <<cacheVars, resolveVars, execVars, prefVars, buildVars, summaryVars>>

\* what the operations of one component leave alone
notCache == <<resolveVars, execVars, prefVars, buildVars, summaryVars>>
notResolve == <<cacheVars, execVars, prefVars, buildVars, summaryVars>>
notExec == <<cacheVars, resolveVars, prefVars, buildVars, summaryVars>>
notPrefs == <<cacheVars, resolveVars, execVars, buildVars, summaryVars>>

None == <<>>
Some(x) == <<x>>

----------------------------------------------------------------------------
\* Bounds of the model

\* how many store() calls a behaviour makes (each draws a fresh randomUUID)
MaxStores == 4
\* how far the clock advances
MaxTime == 3
\* how many timers persistStateDebounced may create
MaxTimers == 2
\* the same where bursts of mutations and the saves they lead to are followed
BurstTimers == 3

----------------------------------------------------------------------------
\* ResponseCache

\* this.maxAge (30 minutes in the source), scaled to the model's clock
maxAge == 2
\* this.maxEntries (100 in the source), scaled as the source's own test does
maxEntries == 2
\* the debounce delay of persistStateDebounced (1000 ms), scaled to the clock
SaveDelay == 1

\* Omit<CachedResponse, 'id' | 'timestamp'>: what callers hand to store()
DataSet ==
    { [tool |-> "xcodebuild-build", fullOutput |-> "Build succeeded", stderr |-> "",
       exitCode |-> 0, command |-> "xcodebuild build", metadata |-> "scheme=MyApp"],
      [tool |-> "simctl-list", fullOutput |-> "Device list", stderr |-> "warning",
       exitCode |-> 1, command |-> "simctl list", metadata |-> ""] }

DataFields == {"tool", "fullOutput", "stderr", "exitCode", "command", "metadata"}

\* { ...data, id, timestamp: new Date() }
CachedResponse(data, id, t) ==
    [f \in DataFields \cup {"id", "timestamp"} |->
        IF f = "id" THEN id ELSE IF f = "timestamp" THEN t ELSE data[f]]

\* a variant of Expired that expires an entry at the age of maxAge already
ExpiredAtBoundary(e, t) == t - e.timestamp >= maxAge

\* a variant of Expired that measures the age in the wrong unit
ExpiredWrongUnit(e, t) == t - e.timestamp > maxAge * 60

\* the expiry test of get and cleanup: Date.now() - timestamp > maxAge
Expired(e, t) == t - e.timestamp > maxAge

\* Array.prototype.sort with (a, b) => a.timestamp - b.timestamp: stable, ascending
RECURSIVE InsertByTimestamp(_, _)
InsertByTimestamp(sorted, e) ==
    IF sorted = <<>> THEN <<e>>
    ELSE IF sorted[Len(sorted)].timestamp <= e.timestamp THEN Append(sorted, e)
    ELSE Append(InsertByTimestamp(SubSeq(sorted, 1, Len(sorted) - 1), e),
                sorted[Len(sorted)])

RECURSIVE SortOldestFirst(_)
SortOldestFirst(s) ==
    IF s = <<>> THEN <<>>
    ELSE InsertByTimestamp(SortOldestFirst(SubSeq(s, 1, Len(s) - 1)), s[Len(s)])

\* a variant of cleanup whose comparator is reversed: it evicts the newest
cleanupNewestFirst(c, t) ==
    LET kept == SelectSeq(c, LAMBDA e : ~Expired(e, t))
    IN  IF Len(kept) > maxEntries
        THEN LET entries  == SortOldestFirst(kept)
                 toRemove == { entries[i].id : i \in (maxEntries + 1)..Len(kept) }
             IN  SelectSeq(kept, LAMBDA e : e.id \notin toRemove)
        ELSE kept

\* a variant of cleanup whose slice is one short: it leaves one entry too many
cleanupOffByOne(c, t) ==
    LET kept == SelectSeq(c, LAMBDA e : ~Expired(e, t))
    IN  IF Len(kept) > maxEntries
        THEN LET entries  == SortOldestFirst(kept)
                 toRemove == { entries[i].id : i \in 1..(Len(kept) - maxEntries - 1) }
             IN  SelectSeq(kept, LAMBDA e : e.id \notin toRemove)
        ELSE kept

\* cleanup(): purge the expired entries, then evict the oldest beyond maxEntries
cleanup(c, t) ==
    LET kept == SelectSeq(c, LAMBDA e : ~Expired(e, t))
    IN  IF Len(kept) > maxEntries
        THEN LET entries  == SortOldestFirst(kept)
                 toRemove == { entries[i].id : i \in 1..(Len(kept) - maxEntries) }
             IN  SelectSeq(kept, LAMBDA e : e.id \notin toRemove)
        ELSE kept

Ids(c) == { c[i].id : i \in 1..Len(c) }
Lookup(c, id) == SelectSeq(c, LAMBDA e : e.id = id)
Remove(c, id) == SelectSeq(c, LAMBDA e : e.id # id)

\* the default of getRecentByTool's limit parameter
DefaultLimit == 5

\* sort((a, b) => b.timestamp - a.timestamp): stable, descending
RECURSIVE InsertNewestFirst(_, _)
InsertNewestFirst(sorted, e) ==
    IF sorted = <<>> THEN <<e>>
    ELSE IF sorted[Len(sorted)].timestamp >= e.timestamp THEN Append(sorted, e)
    ELSE Append(InsertNewestFirst(SubSeq(sorted, 1, Len(sorted) - 1), e),
                sorted[Len(sorted)])

RECURSIVE SortNewestFirst(_)
SortNewestFirst(s) ==
    IF s = <<>> THEN <<>>
    ELSE InsertNewestFirst(SortNewestFirst(SubSeq(s, 1, Len(s) - 1)), s[Len(s)])

\* a variant of slice0 that keeps every element
sliceAll(s, limit) == s

\* Array.prototype.slice(0, limit) for a limit that is not negative
slice0(s, limit) == SubSeq(s, 1, IF limit < Len(s) THEN limit ELSE Len(s))

\* a variant of getRecentByTool that sorts ascending
getRecentByToolOldestFirst(c, tool, limit) ==
    slice0(SortOldestFirst(SelectSeq(c, LAMBDA e : e.tool = tool)), limit)

\* getRecentByTool(tool, limit): it reads the map and changes nothing
getRecentByTool(c, tool, limit) ==
    slice0(SortNewestFirst(SelectSeq(c, LAMBDA e : e.tool = tool)), limit)

\* a variant of persistStateDebounced that schedules nothing while a timeout
\* handle is held
persistStateDebouncedOnce ==
    IF ~enabled \/ saveStateTimeout # 0
    THEN [timeout |-> saveStateTimeout, timers |-> timers, next |-> nextTimer]
    ELSE [timeout |-> nextTimer,
          timers  |-> timers \cup {[id |-> nextTimer, due |-> now + SaveDelay]},
          next    |-> nextTimer + 1]

\* persistStateDebounced(): the timer bookkeeping, as [timeout, timers, next]
persistStateDebounced ==
    IF ~enabled
    THEN [timeout |-> saveStateTimeout, timers |-> timers, next |-> nextTimer]
    ELSE [timeout |-> nextTimer,
          timers  |-> { t \in timers : t.id # saveStateTimeout }
                          \cup {[id |-> nextTimer, due |-> now + SaveDelay]},
          next    |-> nextTimer + 1]

Persist ==
    /\ saveStateTimeout' = persistStateDebounced.timeout
    /\ timers' = persistStateDebounced.timers
    /\ nextTimer' = persistStateDebounced.next

\* what the persistence store may hold when the process starts: nothing, or a
\* snapshot an earlier process saved (handles 101, 102 are that process's)
OldEntry(id, t) ==
    CachedResponse(CHOOSE d \in DataSet : d.tool = "simctl-list", id, t)

DiskStates ==
    { None, Some(<<>>), Some(<<OldEntry(101, -3), OldEntry(102, 0)>>) }

\* a mutation may still create a timer: fewer than n have been created
TimersLeft(n) == enabled => nextTimer <= n

\* randomUUID(): a handle no earlier store has returned
NewHandle == Len(issued) + 1

\* store(data); it returns NewHandle
Store(data) ==
    /\ Len(issued) < MaxStores
    /\ cache' = cleanup(Append(cache, CachedResponse(data, NewHandle, now)), now)
    /\ issued' = Append(issued, now)
    /\ Persist
    /\ UNCHANGED <<now, enabled, load, disk, saving>>
    /\ UNCHANGED notCache

\* get(id)
GetResult(c, t, id) ==
    LET found == Lookup(c, id)
    IN  IF found = <<>> THEN None
        ELSE IF Expired(found[1], t) THEN None
        ELSE Some(found[1])

GetCache(c, t, id) ==
    LET found == Lookup(c, id)
    IN  IF found # <<>> /\ Expired(found[1], t) THEN Remove(c, id) ELSE c

Get(id) ==
    /\ cache' = GetCache(cache, now, id)
    /\ UNCHANGED <<now, issued, enabled, load, disk, saveStateTimeout, timers,
                   nextTimer, saving>>
    /\ UNCHANGED notCache

\* delete(id)
Delete(id) ==
    /\ cache' = Remove(cache, id)
    /\ UNCHANGED <<now, issued, enabled, load, disk, saveStateTimeout, timers,
                   nextTimer, saving>>
    /\ UNCHANGED notCache

\* clear()
Clear ==
    /\ cache' = <<>>
    /\ Persist
    /\ UNCHANGED <<now, issued, enabled, load, disk, saving>>
    /\ UNCHANGED notCache

\* loadPersistedState(), after the await: loadState resolved
LoadDone ==
    /\ load.status = "loading"
    /\ load' = [load EXCEPT !.status = "done"]
    /\ cache' = IF load.data = None THEN cache ELSE cleanup(load.data[1], now)
    /\ UNCHANGED <<now, issued, enabled, disk, saveStateTimeout, timers,
                   nextTimer, saving>>
    /\ UNCHANGED notCache

\* loadPersistedState(), after the await: loadState rejected
LoadFail ==
    /\ load.status = "loading"
    /\ load' = [load EXCEPT !.status = "failed"]
    /\ UNCHANGED <<cache, now, issued, enabled, disk, saveStateTimeout,
                   timers, nextTimer, saving>>
    /\ UNCHANGED notCache

\* the setTimeout callback of persistStateDebounced, up to its await
TimerFire(t) ==
    /\ t \in timers
    /\ now >= t.due
    /\ timers' = timers \ {t}
    /\ saving' = saving \cup {[timer |-> t.id, payload |-> cache]}
    /\ UNCHANGED <<cache, now, issued, enabled, load, disk,
                   saveStateTimeout, nextTimer>>
    /\ UNCHANGED notCache

\* the callback after its await: saveState resolved
SaveOk(s) ==
    /\ s \in saving
    /\ saving' = saving \ {s}
    /\ disk' = Some(s.payload)
    /\ saveStateTimeout' = 0
    /\ UNCHANGED <<cache, now, issued, enabled, load, timers, nextTimer>>
    /\ UNCHANGED notCache

\* the callback after its await: saveState rejected
SaveFail(s) ==
    /\ s \in saving
    /\ saving' = saving \ {s}
    /\ UNCHANGED <<cache, now, issued, enabled, load, disk,
                   saveStateTimeout, timers, nextTimer>>
    /\ UNCHANGED notCache

\* the clock advances
Tick ==
    /\ now < MaxTime
    /\ now' = now + 1
    /\ UNCHANGED <<cache, issued, enabled, load, disk, saveStateTimeout,
                   timers, nextTimer, saving>>
    /\ UNCHANGED notCache

\* the persistence collaborator is switched on or off: what isEnabled() answers
\* from now on
SetEnabled(b) ==
    /\ enabled # b
    /\ enabled' = b
    /\ UNCHANGED <<cache, now, issued, load, disk, saveStateTimeout, timers,
                   nextTimer, saving>>
    /\ UNCHANGED notCache

\* handles a caller may present: issued ones, an earlier process's, an unknown one
Handles == 1..MaxStores \cup {101, 102}

NextCache ==
    \/ \E data \in DataSet : TimersLeft(MaxTimers) /\ Store(data)
    \/ \E id \in Handles : Get(id)
    \/ \E id \in Handles : Delete(id)
    \/ TimersLeft(MaxTimers) /\ Clear
    \/ LoadDone
    \/ LoadFail
    \/ \E t \in timers : TimerFire(t)
    \/ \E s \in saving : SaveOk(s)
    \/ \E s \in saving : SaveFail(s)
    \/ Tick

----------------------------------------------------------------------------
\* JavaScript strings, as sequences of characters

UpperChars == <<"A", "B", "C", "D", "E", "F", "G", "H", "I", "J", "K", "L", "M", "N", "O", "P", "Q", "R", "S", "T", "U", "V", "W", "X", "Y", "Z">>
LowerChars == <<"a", "b", "c", "d", "e", "f", "g", "h", "i", "j", "k", "l", "m", "n", "o", "p", "q", "r", "s", "t", "u", "v", "w", "x", "y", "z">>

LowerChar(ch) ==
    IF \E i \in 1..26 : UpperChars[i] = ch
    THEN LowerChars[CHOOSE i \in 1..26 : UpperChars[i] = ch]
    ELSE ch

\* String.prototype.toLowerCase
toLowerCase(s) == [i \in 1..Len(s) |-> LowerChar(s[i])]

\* String.prototype.includes
includes(s, sub) ==
    \E i \in 0..(Len(s) - Len(sub)) : SubSeq(s, i + 1, i + Len(sub)) = sub

\* String.prototype.trim (the white space of the inputs is the blank)
RECURSIVE trimStart(_)
trimStart(s) == IF s # <<>> /\ s[1] = " " THEN trimStart(Tail(s)) ELSE s
RECURSIVE trimEnd(_)
trimEnd(s) ==
    IF s # <<>> /\ s[Len(s)] = " " THEN trimEnd(SubSeq(s, 1, Len(s) - 1)) ELSE s
trim(s) == trimEnd(trimStart(s))

\* the index of the first ch in s, or 0
IndexOf(s, ch) ==
    IF \E i \in 1..Len(s) : s[i] = ch
    THEN CHOOSE i \in 1..Len(s) : s[i] = ch /\ \A j \in 1..(i - 1) : s[j] # ch
    ELSE 0

\* the index of the last ch in s, or 0
LastIndexOf(s, ch) ==
    IF \E i \in 1..Len(s) : s[i] = ch
    THEN CHOOSE i \in 1..Len(s) : s[i] = ch /\ \A j \in (i + 1)..Len(s) : s[j] # ch
    ELSE 0

S_mac == <<"m", "a", "c">>
S_iphone == <<"i", "p", "h", "o", "n", "e">>
S_ios == <<"i", "o", "s">>
S_tvos == <<"t", "v", "o", "s">>
S_appletv == <<"a", "p", "p", "l", "e", "t", "v">>
S_watch == <<"w", "a", "t", "c", "h">>
S_vision == <<"v", "i", "s", "i", "o", "n">>
S_macos == <<"m", "a", "c", "o", "s">>
S_watchos == <<"w", "a", "t", "c", "h", "o", "s">>
S_visionos == <<"v", "i", "s", "i", "o", "n", "o", "s">>
S_simulator == <<"s", "i", "m", "u", "l", "a", "t", "o", "r">>
S_platformEq == <<"p", "l", "a", "t", "f", "o", "r", "m", "=">>
S_idEq == <<"i", "d", "=">>
S_SimulatorSuffix == <<" ", "S", "i", "m", "u", "l", "a", "t", "o", "r">>

----------------------------------------------------------------------------
\* resolveDestination and its helpers

\* derivePlatformFromToken(token)
derivePlatformFromToken(token) ==
    IF token = None \/ token[1] = <<>> THEN None
    ELSE LET lower == toLowerCase(token[1])
             letters == SelectSeq(lower, LAMBDA ch : \E i \in 1..26 : LowerChars[i] = ch)
         IN  IF includes(lower, S_mac) THEN Some(S_macos)
             ELSE IF includes(lower, S_iphone) \/ includes(lower, S_ios) THEN Some(S_ios)
             ELSE IF includes(lower, S_tvos) \/ includes(lower, S_appletv) THEN Some(S_tvos)
             ELSE IF includes(lower, S_watch) THEN Some(S_watchos)
             ELSE IF includes(lower, S_vision) THEN Some(S_visionos)
             ELSE IF letters = <<>> THEN None ELSE Some(letters)

\* a variant of deriveSdkInfo that takes every SDK for a simulator SDK
deriveSdkInfoAlwaysSimulator(sdk) ==
    IF sdk = None \/ sdk[1] = <<>>
    THEN [platform |-> None, isSimulator |-> FALSE]
    ELSE [platform |-> derivePlatformFromToken(Some(toLowerCase(sdk[1]))),
          isSimulator |-> TRUE]

\* deriveSdkInfo(sdk)
deriveSdkInfo(sdk) ==
    IF sdk = None \/ sdk[1] = <<>>
    THEN [platform |-> None, isSimulator |-> FALSE]
    ELSE LET lower == toLowerCase(sdk[1])
         IN  [platform |-> derivePlatformFromToken(Some(lower)),
              isSimulator |-> includes(lower, S_simulator)]

\* destination.match(/platform=([^,]+)/i): the capture of the leftmost match
MatchPlatform(destination) ==
    LET lower == toLowerCase(destination)
        n == Len(S_platformEq)
        hit(i) == /\ SubSeq(lower, i, i + n - 1) = S_platformEq
                  /\ i + n <= Len(destination)
                  /\ destination[i + n] # ","
        starts == { i \in 1..(Len(destination) - n) : hit(i) }
    IN  IF starts = {} THEN None
        ELSE LET i == CHOOSE k \in starts : \A m \in starts : k <= m
                 rest == SubSeq(destination, i + n, Len(destination))
                 comma == IndexOf(rest, ",")
             IN  Some(IF comma = 0 THEN rest ELSE SubSeq(rest, 1, comma - 1))

\* derivePlatformFromDestination(destination)
derivePlatformFromDestination(destination) ==
    IF destination = None \/ destination[1] = <<>> THEN None
    ELSE LET match == MatchPlatform(destination[1])
         IN  IF match = None THEN None ELSE derivePlatformFromToken(match)

\* a variant of platformsCompatible that takes an unknown platform for a mismatch
platformsCompatibleStrict(sdkPlatform, destinationPlatform) ==
    sdkPlatform # None /\ destinationPlatform # None /\ sdkPlatform = destinationPlatform

\* platformsCompatible(sdkPlatform, destinationPlatform)
platformsCompatible(sdkPlatform, destinationPlatform) ==
    IF sdkPlatform = None \/ destinationPlatform = None THEN TRUE
    ELSE sdkPlatform = destinationPlatform

\* runtimeMatchesPlatform(runtime, platform)
runtimeMatchesPlatform(runtime, platform) ==
    includes(toLowerCase(runtime), toLowerCase(platform))

\* platformLabelFromRuntime(runtime)
platformLabelFromRuntime(runtime) ==
    LET dot == LastIndexOf(runtime, ".")
        popped == SubSeq(runtime, dot + 1, Len(runtime))
        lastSegment == IF popped = <<>> THEN runtime ELSE popped
        dash == IndexOf(lastSegment, "-")
        baseName == IF dash = 0 THEN lastSegment ELSE SubSeq(lastSegment, 1, dash - 1)
    IN  IF baseName = <<>> THEN None ELSE Some(baseName \o S_SimulatorSuffix)

\* buildDestinationFromUdid(udid, runtime)
buildDestinationFromUdid(udid, runtime) ==
    LET platformLabel == IF runtime = None THEN None
                         ELSE platformLabelFromRuntime(runtime[1])
    IN  IF platformLabel = None THEN S_idEq \o udid
        ELSE S_platformEq \o platformLabel[1] \o <<",">> \o S_idEq \o udid

\* findRuntimeForUdid(udid), over the listing getSimulatorList returned:
\* a sequence of [runtime, devices], devices a sequence of [udid, isAvailable]
findRuntimeForUdid(list, udid) ==
    LET holds(i) == \E j \in 1..Len(list[i].devices) : list[i].devices[j].udid = udid
        found == { i \in 1..Len(list) : holds(i) }
    IN  IF found = {} THEN None
        ELSE Some(list[CHOOSE i \in found : \A k \in found : i <= k].runtime)

\* the loop of getSmartSimulatorDestination over Object.entries(list.devices)
RECURSIVE FirstAvailable(_, _, _)
FirstAvailable(list, i, platformHint) ==
    IF i > Len(list) THEN None
    ELSE LET runtime == list[i].runtime
             devices == list[i].devices
             avail == { j \in 1..Len(devices) : devices[j].isAvailable }
         IN  IF platformHint # None /\ ~runtimeMatchesPlatform(runtime, platformHint[1])
             THEN FirstAvailable(list, i + 1, platformHint)
             ELSE IF avail # {}
             THEN Some(buildDestinationFromUdid(
                          devices[CHOOSE j \in avail : \A k \in avail : j <= k].udid,
                          Some(runtime)))
             ELSE FirstAvailable(list, i + 1, platformHint)

\* a variant of getSmartSimulatorDestination that passes the preferred
\* simulator over
getSmartSimulatorDestinationUnpreferred(p, platformHint) ==
    IF p.list = None THEN None ELSE FirstAvailable(p.list[1], 1, platformHint)

\* getSmartSimulatorDestination(projectPath, platformHint); p.list is None when the
\* simulator cache throws, which the function's catch turns into undefined
getSmartSimulatorDestination(p, platformHint) ==
    IF p.list = None THEN None
    ELSE LET list == p.list[1]
             runtime == IF p.preferredSim = None THEN None
                        ELSE findRuntimeForUdid(list, p.preferredSim[1])
         IN  IF /\ p.preferredSim # None
                /\ \/ platformHint = None
                   \/ (runtime # None /\ runtimeMatchesPlatform(runtime[1], platformHint[1]))
             THEN Some(buildDestinationFromUdid(p.preferredSim[1], runtime))
             ELSE FirstAvailable(list, 1, platformHint)

\* a variant of explicitGiven that lets a cached destination take precedence
explicitGivenUnlessCached(p) ==
    /\ p.explicitDestination # None
    /\ Len(trim(p.explicitDestination[1])) > 0
    /\ (p.preferredConfig = None \/ p.preferredConfig[1].destination = None)

\* explicitDestination && explicitDestination.trim().length > 0
explicitGiven(p) ==
    p.explicitDestination # None /\ Len(trim(p.explicitDestination[1])) > 0

\* resolveDestination(params): the destination, and whether the simulator cache
\* was consulted on the way
resolveDestination(p) ==
    LET sdkInfo == deriveSdkInfo(p.sdk)
        preferred == IF p.preferredConfig = None THEN None
                     ELSE p.preferredConfig[1].destination
    IN  IF explicitGiven(p)
        THEN [destination |-> p.explicitDestination, queried |-> FALSE]
        ELSE IF /\ preferred # None
                /\ preferred[1] # <<>>
                /\ platformsCompatible(sdkInfo.platform,
                                       derivePlatformFromDestination(preferred))
        THEN [destination |-> preferred, queried |-> FALSE]
        ELSE IF sdkInfo.platform = Some(S_macos)
        THEN [destination |-> None, queried |-> FALSE]
        ELSE IF sdkInfo.platform # None /\ ~sdkInfo.isSimulator
                /\ sdkInfo.platform # Some(S_macos)
        THEN [destination |-> None, queried |-> FALSE]
        ELSE [destination |-> getSmartSimulatorDestination(p, sdkInfo.platform),
              queried |-> TRUE]

\* the inputs of the calls the model makes
D_empty == <<>>
D_blank == <<" ", " ">>
D_anyMac == <<"g", "e", "n", "e", "r", "i", "c", "/", "p", "l", "a", "t", "f", "o", "r", "m", "=", "m", "a", "c", "O", "S", ",", "n", "a", "m", "e", "=", "A", "n", "y", " ", "M", "a", "c">>
D_iosCached == <<"p", "l", "a", "t", "f", "o", "r", "m", "=", "i", "O", "S", " ", "S", "i", "m", "u", "l", "a", "t", "o", "r", ",", "i", "d", "=", "C", "A", "C", "H", "E", "D">>
D_tvCached == <<"p", "l", "a", "t", "f", "o", "r", "m", "=", "t", "v", "O", "S", " ", "S", "i", "m", "u", "l", "a", "t", "o", "r", ",", "i", "d", "=", "T", "V", "-", "1">>
D_idOnly == <<"i", "d", "=", "C", "A", "C", "H", "E", "D">>
D_macCached == <<"p", "l", "a", "t", "f", "o", "r", "m", "=", "m", "a", "c", "O", "S", ",", "a", "r", "c", "h", "=", "a", "r", "m", "6", "4">>

K_macosx == <<"m", "a", "c", "o", "s", "x">>
K_iphonesimulator == <<"i", "p", "h", "o", "n", "e", "s", "i", "m", "u", "l", "a", "t", "o", "r">>
K_iphoneos == <<"i", "p", "h", "o", "n", "e", "o", "s">>
K_tvossimulator == <<"t", "v", "o", "s", "s", "i", "m", "u", "l", "a", "t", "o", "r">>
K_appletvos == <<"a", "p", "p", "l", "e", "t", "v", "o", "s">>

U_phone == <<"P", "H", "O", "N", "E">>
U_tv == <<"T", "V", "-", "U", "D", "I", "D">>
U_gone == <<"G", "O", "N", "E">>
R_tvos == <<"c", "o", "m", ".", "a", "p", "p", "l", "e", ".", "C", "o", "r", "e", "S", "i", "m", "u", "l", "a", "t", "o", "r", ".", "S", "i", "m", "R", "u", "n", "t", "i", "m", "e", ".", "t", "v", "O", "S", "-", "1", "8", "-", "0">>
R_ios == <<"c", "o", "m", ".", "a", "p", "p", "l", "e", ".", "C", "o", "r", "e", "S", "i", "m", "u", "l", "a", "t", "o", "r", ".", "S", "i", "m", "R", "u", "n", "t", "i", "m", "e", ".", "i", "O", "S", "-", "1", "8", "-", "0">>

ExplicitDestinations ==
    { None, Some(D_empty), Some(D_blank), Some(D_anyMac), Some(D_iosCached), Some(D_idOnly) }

\* preferredConfig: null, or a BuildConfig with its optional destination
PreferredConfigs ==
    {None} \cup { Some([destination |-> d]) :
                    d \in { None, Some(D_empty), Some(D_iosCached), Some(D_tvCached),
                            Some(D_idOnly), Some(D_macCached) } }

Sdks ==
    { None, Some(<<>>), Some(K_macosx), Some(K_iphonesimulator), Some(K_iphoneos),
      Some(K_tvossimulator), Some(K_appletvos) }

\* what getSimulatorList may return (None: it throws)
Listings ==
    { None,
      Some(<<>>),
      Some(<< [runtime |-> R_tvos, devices |-> << [udid |-> U_tv, isAvailable |-> TRUE] >>],
              [runtime |-> R_ios, devices |-> << [udid |-> U_gone, isAvailable |-> FALSE],
                                                 [udid |-> U_phone, isAvailable |-> TRUE] >>] >>) }

\* what getPreferredSimulator may return
PreferredSims == { None, Some(U_phone), Some(U_tv), Some(U_gone) }

\* the call resolveDestination(params)
Resolve ==
    /\ resolved = None
    /\ resolved' = Some(resolveDestination(params))
    /\ UNCHANGED params
    /\ UNCHANGED notResolve

----------------------------------------------------------------------------
\* executeCommandStreaming

\* how many 'data' events the child delivers
MaxChunks == 3

\* a RegExp of fatalPatterns is a literal here: chunk.match(pattern) is the
\* literal when the chunk contains it (match[0]), and null otherwise
match(chunk, pattern) == IF includes(chunk, pattern) THEN Some(pattern) ELSE None

P_b == <<"b">>
P_ab == <<"a", "b">>
P_any == <<>>

\* the fatalPatterns of the calls the model makes; P_any is a pattern that
\* matches the empty string, as /x*/ or /(error)?/ do
PatternLists == { <<>>, <<P_ab>>, <<P_b, P_ab>>, <<P_any, P_b>> }

MaxBuffers == {2, 3}

Chunks == { <<"a">>, <<"a", "b">>, <<"b", " ">> }

\* the index of the first pattern, in list order, that the chunk matches, or 0
FirstMatching(chunk, patterns) ==
    LET hits == { i \in 1..Len(patterns) : match(chunk, patterns[i]) # None }
    IN  IF hits = {} THEN 0 ELSE CHOOSE i \in hits : \A k \in hits : i <= k

\* if (fatalMatch): undefined and the empty string are both falsy
Truthy(m) == m # None /\ m[1] # <<>>

\* checkPatterns(chunk): what it leaves in fatalMatch, the calls of onFatalMatch
\* and whether the child has been sent a kill
checkPatterns(chunk) ==
    LET i == FirstMatching(chunk, options.fatalPatterns)
    IN  IF Truthy(fatalMatch) \/ i = 0
        THEN [fatalMatch |-> fatalMatch, fatalCalls |-> fatalCalls, killed |-> killed]
        ELSE [fatalMatch |-> match(chunk, options.fatalPatterns[i]),
              fatalCalls |-> Append(fatalCalls, match(chunk, options.fatalPatterns[i])[1]),
              killed |-> TRUE]

Pending == [state |-> "pending", value |-> None, error |-> "none"]

\* a variant of resolve that settles a settled promise again
resolveAgain(pr, value) == [state |-> "resolved", value |-> Some(value), error |-> "none"]

\* resolve(value) on the promise: a settled promise stays as it is
resolve(pr, value) ==
    IF pr.state = "pending"
    THEN [state |-> "resolved", value |-> Some(value), error |-> "none"]
    ELSE pr

\* reject(error) on the promise: a settled promise stays as it is
reject(pr, error) ==
    IF pr.state = "pending"
    THEN [state |-> "rejected", value |-> None, error |-> error]
    ELSE pr

\* a variant of exceeds that is off by one
exceedsOffByOne(out) == Len(out) > options.maxBuffer + 1

\* stdout.length > maxBuffer
exceeds(out) == Len(out) > options.maxBuffer

\* a variant of closeResult that reports no timeout
closeResultNoTimeout(code) ==
    [stdout |-> trim(stdout), stderr |-> trim(stderr),
     code |-> IF code = None THEN 0 ELSE code[1],
     timedOut |-> FALSE, fatalMatch |-> fatalMatch]

\* the value the close handler resolves with; code is None for null
closeResult(code) ==
    [stdout |-> trim(stdout), stderr |-> trim(stderr),
     code |-> IF code = None THEN 0 ELSE code[1],
     timedOut |-> timedOut, fatalMatch |-> fatalMatch]

\* child.stdout.on('data'): the child writes while it runs, also after a kill
\* has been sent and before it closes
StdoutData(chunk) ==
    /\ child = "running"
    /\ nChunks < MaxChunks
    /\ nChunks' = nChunks + 1
    /\ stdout' = stdout \o chunk
    /\ fatalMatch' = checkPatterns(chunk).fatalMatch
    /\ fatalCalls' = checkPatterns(chunk).fatalCalls
    /\ IF exceeds(stdout')
       THEN /\ killed' = TRUE
            /\ timeoutId' = FALSE
            /\ promise' = reject(promise, "maxBuffer")
       ELSE /\ killed' = checkPatterns(chunk).killed
            /\ UNCHANGED <<timeoutId, promise>>
    /\ UNCHANGED <<options, stderr, timedOut, child>>
    /\ UNCHANGED notExec

\* child.stderr.on('data')
StderrData(chunk) ==
    /\ child = "running"
    /\ nChunks < MaxChunks
    /\ nChunks' = nChunks + 1
    /\ stderr' = stderr \o chunk
    /\ fatalMatch' = checkPatterns(chunk).fatalMatch
    /\ fatalCalls' = checkPatterns(chunk).fatalCalls
    /\ killed' = checkPatterns(chunk).killed
    /\ UNCHANGED <<options, stdout, timedOut, child, timeoutId, promise>>
    /\ UNCHANGED notExec

\* the setTimeout callback of line 104
Timeout ==
    /\ timeoutId
    /\ timeoutId' = FALSE
    /\ timedOut' = TRUE
    /\ killed' = TRUE
    /\ UNCHANGED <<options, stdout, stderr, fatalMatch, child, promise, fatalCalls,
                   nChunks>>
    /\ UNCHANGED notExec

\* child.on('close'): the process has ended and its streams are closed
Close(code) ==
    /\ child \in {"running", "failed"}
    /\ child' = "closed"
    /\ timeoutId' = FALSE
    /\ promise' = resolve(promise, closeResult(code))
    /\ UNCHANGED <<options, stdout, stderr, timedOut, fatalMatch, killed, fatalCalls,
                   nChunks>>
    /\ UNCHANGED notExec

\* child.on('error'): the process could not be spawned
SpawnError ==
    /\ child = "running"
    /\ nChunks = 0
    /\ timeoutId
    /\ child' = "failed"
    /\ timeoutId' = FALSE
    /\ promise' = reject(promise, "spawn")
    /\ UNCHANGED <<options, stdout, stderr, timedOut, fatalMatch, killed, fatalCalls,
                   nChunks>>
    /\ UNCHANGED notExec

ExitCodes == { None, Some(0), Some(65) }

NextExec ==
    \/ \E chunk \in Chunks : StdoutData(chunk)
    \/ \E chunk \in Chunks : StderrData(chunk)
    \/ Timeout
    \/ \E code \in ExitCodes : Close(code)
    \/ SpawnError

----------------------------------------------------------------------------
\* The project preference cache

\* how many outcome records the history retains per project
HistoryCap == 2

Projects == { "SpaceTime.xcodeproj", "Other.xcodeproj" }

BuildConfigs == { [configuration |-> "Debug"], [configuration |-> "Release"] }

\* a variant of nextPreferred that lets every outcome replace the preference
nextPreferredAnyOutcome(old, config, success) == Some(config)

\* the preferred configuration after an outcome has been recorded
nextPreferred(old, config, success) == IF success THEN Some(config) ELSE old

\* the history after an outcome has been recorded: the oldest records go first
nextHistory(old, outcome) ==
    LET all == Append(old, outcome)
    IN  IF Len(all) > HistoryCap THEN SubSeq(all, Len(all) - HistoryCap + 1, Len(all))
        ELSE all

\* getPreferredBuildConfig(projectPath)
getPreferredBuildConfig(prefs, project) == prefs[project]

\* recordBuildResult(projectPath, config, outcome)
recordBuildResult(project, config, success) ==
    /\ buildHistory' = [buildHistory EXCEPT
                           ![project] = nextHistory(@, [success |-> success])]
    /\ preferredBuildConfig' = [preferredBuildConfig EXCEPT
                                   ![project] = nextPreferred(@, config, success)]
    /\ UNCHANGED notPrefs

NextPrefs ==
    \E project \in Projects, config \in BuildConfigs, success \in BOOLEAN :
        recordBuildResult(project, config, success)

----------------------------------------------------------------------------
\* extractBuildSummary
\* The output of a run is a sequence of lines (the text split at '\n'), and a
\* line a sequence of words; includes and trim work on lines as on strings.

M_error == <<"error:">>
M_buildFailed == <<"**", "BUILD", "FAILED", "**">>
M_warning == <<"warning:">>
M_buildSucceeded == <<"**", "BUILD", "SUCCEEDED", "**">>
M_buildCompleted == <<"Build", "completed">>

\* how many error and warning lines a summary exposes
SummaryCap == 10

\* lines.map(l => l.trim())
trimAll(lines) == [i \in 1..Len(lines) |-> trim(lines[i])]

\* a variant of extractBuildSummary that takes the exit code alone for success
extractBuildSummaryExitOnly(output, errOutput, exitCode) ==
    LET lines == output \o errOutput
        errors == SelectSeq(lines, LAMBDA l : includes(l, M_error) \/ includes(l, M_buildFailed))
        warnings == SelectSeq(lines, LAMBDA l : includes(l, M_warning))
        successIndicators ==
            SelectSeq(lines, LAMBDA l : includes(l, M_buildSucceeded)
                                           \/ includes(l, M_buildCompleted))
    IN  [success      |-> exitCode = 0,
         exitCode     |-> exitCode,
         errorCount   |-> Len(errors),
         warningCount |-> Len(warnings),
         hasErrors    |-> Len(errors) > 0,
         hasWarnings  |-> Len(warnings) > 0,
         firstError   |-> IF errors = <<>> THEN None ELSE Some(trim(errors[1])),
         errors       |-> trimAll(slice0(errors, SummaryCap)),
         warnings     |-> trimAll(slice0(warnings, SummaryCap))]

\* extractBuildSummary(output, stderr, exitCode)
extractBuildSummary(output, errOutput, exitCode) ==
    LET lines == output \o errOutput
        errors == SelectSeq(lines, LAMBDA l : includes(l, M_error) \/ includes(l, M_buildFailed))
        warnings == SelectSeq(lines, LAMBDA l : includes(l, M_warning))
        successIndicators ==
            SelectSeq(lines, LAMBDA l : includes(l, M_buildSucceeded)
                                           \/ includes(l, M_buildCompleted))
    IN  [success      |-> exitCode = 0 /\ Len(successIndicators) > 0,
         exitCode     |-> exitCode,
         errorCount   |-> Len(errors),
         warningCount |-> Len(warnings),
         hasErrors    |-> Len(errors) > 0,
         hasWarnings  |-> Len(warnings) > 0,
         firstError   |-> IF errors = <<>> THEN None ELSE Some(trim(errors[1])),
         errors       |-> trimAll(slice0(errors, SummaryCap)),
         warnings     |-> trimAll(slice0(warnings, SummaryCap))]

\* the call extractBuildSummary(output, stderr, exitCode)
Summarise ==
    /\ summaryResult = None
    /\ summaryResult' = Some(extractBuildSummary(summaryArgs.output, summaryArgs.stderr,
                                                 summaryArgs.exitCode))
    /\ UNCHANGED summaryArgs
    /\ UNCHANGED <<cacheVars, resolveVars, execVars, prefVars, buildVars>>

\* the inputs of the calls the model makes
LineNames == <<"f1", "f2", "f3", "f4", "f5", "f6", "f7", "f8", "f9", "f10", "f11", "f12">>
ErrorLine(i) == <<" ", LineNames[i], "error:", "boom">>
WarningLine(i) == <<LineNames[i], "warning:", "unused", " ">>

\* ne error lines and nw warning lines from the i-th on, interleaved
RECURSIVE Mixed(_, _, _)
Mixed(i, ne, nw) ==
    IF i > ne /\ i > nw THEN <<>>
    ELSE (IF i <= ne THEN <<ErrorLine(i)>> ELSE <<>>)
         \o (IF i <= nw THEN <<WarningLine(i)>> ELSE <<>>)
         \o Mixed(i + 1, ne, nw)

\* the closing lines of a run
Closings ==
    { <<>>,
      <<M_buildSucceeded>>,
      <<<<"note:">> \o M_buildCompleted \o <<"in", "3s">>>>,
      <<M_buildFailed>> }

SummaryInputs ==
    { [output   |-> IF inErr THEN Mixed(1, ne, nw) ELSE Mixed(1, ne, nw) \o m,
       stderr   |-> IF inErr THEN m ELSE <<>>,
       exitCode |-> c] :
         ne \in {0, 1, 10, 11, 12}, nw \in {0, 2, 11}, m \in Closings,
         inErr \in BOOLEAN, c \in {0, 65} }

----------------------------------------------------------------------------
\* xcodebuildBuildTool
\* An invocation is one step: the tool awaits its collaborators in sequence,
\* and what they answer is the input of the step (env, outcome).

\* how many invocations a behaviour makes
MaxBuilds == 2

\* a ?? b
coalesce(a, b) == IF a # None THEN a ELSE b

\* an argument of the call: whether rawArgs has the property, and its value
NotProvided == [provided |-> FALSE, value |-> None]
Provided(v) == [provided |-> TRUE, value |-> v]

S_Simulator == <<"S", "i", "m", "u", "l", "a", "t", "o", "r">>

UdidChars == {"A", "B", "C", "D", "E", "F", "0", "1", "2", "3", "4", "5", "6", "7", "8",
              "9", "-"}

\* the longest prefix of s made of [A-F0-9-]
RECURSIVE UdidRun(_)
UdidRun(s) ==
    IF s # <<>> /\ s[1] \in UdidChars THEN <<s[1]>> \o UdidRun(Tail(s)) ELSE <<>>

\* destination.match(/id=([A-F0-9-]+)/): the capture group of the leftmost
\* match, or None
UdidMatch(d) ==
    LET starts == { i \in 1..(Len(d) - 3) :
                      SubSeq(d, i, i + 2) = S_idEq /\ d[i + 3] \in UdidChars }
    IN  IF starts = {} THEN None
        ELSE LET i == CHOOSE j \in starts : \A k \in starts : j <= k
             IN  Some(UdidRun(SubSeq(d, i + 3, Len(d))))

\* a part of a command line; quoted parts are wrapped in double quotes
Part(text, quoted) == [text |-> text, quoted |-> quoted]

\* buildXcodebuildCommand(action, projectPath, options): the parts it joins
\* with blanks (the projects of the model are .xcodeproj files)
buildXcodebuildCommand(action, projectPath, o) ==
    <<Part("xcodebuild", FALSE), Part("-project", FALSE), Part(projectPath, TRUE)>>
    \o (IF o.scheme # "" THEN <<Part("-scheme", FALSE), Part(o.scheme, TRUE)>> ELSE <<>>)
    \o (IF o.configuration # ""
        THEN <<Part("-configuration", FALSE), Part(o.configuration, FALSE)>> ELSE <<>>)
    \o (IF o.destination # None /\ o.destination[1] # <<>>
        THEN <<Part("-destination", FALSE), Part(o.destination[1], TRUE)>> ELSE <<>>)
    \o (IF o.sdk # None /\ o.sdk[1] # <<>>
        THEN <<Part("-sdk", FALSE), Part(o.sdk[1], FALSE)>> ELSE <<>>)
    \o (IF o.derivedDataPath # None /\ o.derivedDataPath[1] # ""
        THEN <<Part("-derivedDataPath", FALSE), Part(o.derivedDataPath[1], TRUE)>>
        ELSE <<>>)
    \o <<Part(action, FALSE)>>

\* the fields of the preferred configuration, None where there is none
preferredField(preferredConfig, f) ==
    IF preferredConfig = None THEN None ELSE
    IF f = "configuration" THEN Some(preferredConfig[1].configuration)
    ELSE preferredConfig[1][f]

\* what resolveDestination is called with
destinationParams(a, env, preferredConfig) ==
    [explicitDestination |-> a.destination.value,
     preferredConfig     |-> preferredConfig,
     sdk                 |-> coalesce(a.sdk.value, preferredField(preferredConfig, "sdk")),
     preferredSim        |-> env.preferredSim,
     list                |-> env.list]

\* const finalConfig: BuildConfig
finalConfig(a, env, preferredConfig) ==
    [scheme          |-> a.scheme,
     configuration   |-> coalesce(coalesce(a.configuration.value,
                                           preferredField(preferredConfig, "configuration")),
                                  Some("Debug"))[1],
     destination     |-> resolveDestination(destinationParams(a, env, preferredConfig))
                             .destination,
     sdk             |-> coalesce(a.sdk.value, preferredField(preferredConfig, "sdk")),
     derivedDataPath |-> coalesce(a.derivedDataPath.value,
                                  preferredField(preferredConfig, "derivedDataPath"))]

\* `Build aborted after ${timeoutMs}ms (timeout)`
TimeoutMessage == <<"Build", "aborted", "after", "55000ms", "(timeout)">>
\* `Build timed out after ${timeoutMs}ms`
TimedOutFirstError == <<"Build", "timed", "out", "after", "55000ms">>
\* `Detected fatal xcodebuild output: ${result.fatalMatch}`
FatalMessage(m) == <<"Detected", "fatal", "xcodebuild", "output:">> \o m

\* the truthiness of result.fatalMatch
hasFatalMatch(result) == result.fatalMatch # None /\ result.fatalMatch[1] # <<>>

\* a variant of buildSuccess that does not look at the timeout
buildSuccessDespiteTimeout(summary, result) == summary.success

\* const buildSuccess
buildSuccess(summary, result) == summary.success /\ ~result.timedOut

\* a variant of augmentedErrors that appends the fatal message
augmentedErrorsFatalLast(summary, result) ==
    (IF result.timedOut THEN <<TimeoutMessage>> ELSE <<>>)
    \o summary.errors
    \o (IF hasFatalMatch(result) THEN <<FatalMessage(result.fatalMatch[1])>> ELSE <<>>)

\* const augmentedErrors, after both unshifts
augmentedErrors(summary, result) ==
    (IF result.timedOut THEN <<TimeoutMessage>> ELSE <<>>)
    \o (IF hasFatalMatch(result) THEN <<FatalMessage(result.fatalMatch[1])>> ELSE <<>>)
    \o summary.errors

\* adjustedSummary.firstError
adjustedFirstError(summary, result) ==
    IF summary.firstError # None /\ summary.firstError[1] # <<>> THEN summary.firstError
    ELSE IF hasFatalMatch(result) THEN result.fatalMatch
    ELSE IF result.timedOut THEN Some(TimedOutFirstError)
    ELSE None

\* finalConfig.destination && finalConfig.destination.includes('Simulator')
usesSimulator(config) ==
    /\ config.destination # None
    /\ config.destination[1] # <<>>
    /\ includes(config.destination[1], S_Simulator)

\* the udid recordSimulatorUsage is called with, or None when it is not called
usageUdid(config) ==
    IF usesSimulator(config) THEN UdidMatch(config.destination[1]) ELSE None

\* !provided.destination && !!finalConfig.destination
usedSmartDestination(a, config) ==
    ~a.destination.provided /\ config.destination # None /\ config.destination[1] # <<>>

\* !provided.configuration && finalConfig.configuration !== 'Debug'
usedSmartConfiguration(a, config) ==
    ~a.configuration.provided /\ config.configuration # "Debug"

\* what the tool hands to responseCache.store
storeData(a, config, result, summary) ==
    [tool       |-> "xcodebuild-build",
     fullOutput |-> result.stdout,
     stderr     |-> result.stderr,
     exitCode   |-> result.code,
     command    |-> buildXcodebuildCommand("build", a.projectPath, config),
     metadata   |-> [projectPath   |-> a.projectPath,
                     scheme        |-> config.scheme,
                     configuration |-> config.configuration,
                     destination   |-> config.destination,
                     sdk           |-> config.sdk,
                     success       |-> buildSuccess(summary, result),
                     errorCount    |-> summary.errorCount,
                     warningCount  |-> summary.warningCount,
                     smartDestinationUsed   |-> usedSmartDestination(a, config),
                     smartConfigurationUsed |-> usedSmartConfiguration(a, config),
                     timedOut      |-> result.timedOut,
                     fatalMatch    |-> result.fatalMatch]]

\* const responseData; an absent (undefined) field is None
responseData(cacheId, a, preferredConfig, config, result, summary, install) ==
    [buildId  |-> cacheId,
     success  |-> buildSuccess(summary, result),
     errors   |-> IF Len(augmentedErrors(summary, result)) > 0
                  THEN Some(augmentedErrors(summary, result)) ELSE None,
     warnings |-> IF Len(summary.warnings) > 0 THEN Some(summary.warnings) ELSE None,
     summary  |-> [success       |-> buildSuccess(summary, result),
                   exitCode      |-> summary.exitCode,
                   errorCount    |-> summary.errorCount,
                   warningCount  |-> summary.warningCount,
                   hasErrors     |-> summary.hasErrors,
                   hasWarnings   |-> summary.hasWarnings,
                   firstError    |-> adjustedFirstError(summary, result),
                   scheme        |-> config.scheme,
                   configuration |-> config.configuration,
                   destination   |-> config.destination],
     autoInstall  |-> install,
     intelligence |-> [usedSmartDestination   |-> usedSmartDestination(a, config),
                       usedSmartConfiguration |-> usedSmartConfiguration(a, config),
                       hasPreferredConfig     |-> preferredConfig # None,
                       simulatorUsageRecorded |-> usesSimulator(config),
                       configurationLearned   |-> buildSuccess(summary, result),
                       autoInstallAttempted   |-> a.autoInstall
                                                  /\ buildSuccess(summary, result)]]

\* what an invocation gives its caller: a tool result, or a thrown McpError
Returned(response, isError) ==
    [thrown |-> FALSE, error |-> "none", response |-> Some(response), isError |-> isError]
Thrown ==
    [thrown |-> TRUE, error |-> "McpError", response |-> None, isError |-> FALSE]

\* a variant of completes that takes an overflowing run for a finished one
completesDespiteOverflow(env, o) ==
    env.valid /\ (o.state = "resolved" \/ o.error = "maxBuffer")

\* the invocation gets past its awaits: the validation has passed and
\* executeCommandStreaming has resolved
completes(env, o) == env.valid /\ o.state = "resolved"

\* the result the rest of the invocation works on
resultOf(o) ==
    IF o.state = "resolved" THEN o.value[1]
    ELSE [stdout |-> <<>>, stderr |-> <<>>, code |-> 0, timedOut |-> FALSE,
          fatalMatch |-> None]

\* a variant of continuesPastSettings that lets a failure of the settings
\* store end the invocation
continuesUnlessSettingsFail(env, config, success) ==
    ~(usageUdid(config) # None /\ success /\ ~env.configOk)

\* the try/catch around createConfigManager and recordSuccessfulBuild: the
\* invocation goes on whatever they throw
continuesPastSettings(env, config, success) == TRUE

\* the simulator performAutoInstall installs to: simulatorUdid if given, else
\* the udid getBestSimulator suggests, None when there is neither
targetUdid(a, env) ==
    IF a.simulatorUdid # None /\ a.simulatorUdid[1] # <<>> THEN a.simulatorUdid
    ELSE env.bestSimulator

\* the calls performAutoInstall makes, in order
installCalls(a, env) ==
    <<"findBuildArtifacts">>
    \o (IF ~env.appPath THEN <<>>
        ELSE (IF a.simulatorUdid # None /\ a.simulatorUdid[1] # <<>>
              THEN <<"findSimulatorByUdid">> ELSE <<"getBestSimulator">>)
             \o (IF targetUdid(a, env) = None THEN <<>>
                 ELSE (IF a.bootSimulator THEN <<"simctlBootTool">> ELSE <<>>)
                      \o <<"simctlInstallTool">>))

\* a variant of performAutoInstall that gives up when the simulator does not
\* boot
performAutoInstallBootFatal(a, env) ==
    IF ~env.appPath
    THEN [success |-> FALSE, udid |-> None, error |-> "Could not find .app bundle"]
    ELSE IF targetUdid(a, env) = None
    THEN [success |-> FALSE, udid |-> None, error |-> "No suitable simulator found"]
    ELSE IF a.bootSimulator /\ ~env.bootOk
    THEN [success |-> FALSE, udid |-> None, error |-> "Boot failed"]
    ELSE IF env.install = "ok"
    THEN [success |-> TRUE, udid |-> targetUdid(a, env), error |-> "none"]
    ELSE [success |-> FALSE, udid |-> None, error |-> "Installation failed"]

\* performAutoInstall(args) inside the try/catch of its caller: what
\* autoInstallResult becomes
performAutoInstall(a, env) ==
    IF ~env.appPath
    THEN [success |-> FALSE, udid |-> None, error |-> "Could not find .app bundle"]
    ELSE IF targetUdid(a, env) = None
    THEN [success |-> FALSE, udid |-> None, error |-> "No suitable simulator found"]
    ELSE IF env.install = "ok"
    THEN [success |-> TRUE, udid |-> targetUdid(a, env), error |-> "none"]
    ELSE [success |-> FALSE, udid |-> None, error |-> "Installation failed"]

\* a variant of autoInstallResult that reports nothing when the install fails
autoInstallResultSilent(a, env, success) ==
    IF a.autoInstall /\ success /\ performAutoInstall(a, env).success
    THEN Some(performAutoInstall(a, env)) ELSE None

\* let autoInstallResult: None is undefined
autoInstallResult(a, env, success) ==
    IF a.autoInstall /\ success THEN Some(performAutoInstall(a, env)) ELSE None

\* the calls the invocation makes on its collaborators, in order
callsOf(a, env, o, config, success) ==
    <<"validateProjectPath">>
    \o (IF env.valid
        THEN <<"getPreferredBuildConfig", "resolveDestination", "executeCommandStreaming">>
        ELSE <<>>)
    \o (IF completes(env, o)
        THEN <<"extractBuildSummary", "recordBuildResult">>
             \o (IF usageUdid(config) # None
                 THEN <<"recordSimulatorUsage">>
                      \o (IF success THEN <<"recordSuccessfulBuild">> ELSE <<>>)
                 ELSE <<>>)
             \o (IF continuesPastSettings(env, config, success)
                 THEN <<"responseCache.store">>
                      \o (IF a.autoInstall /\ success THEN installCalls(a, env) ELSE <<>>)
                 ELSE <<>>)
        ELSE <<>>)

\* xcodebuildBuildTool(args), with what its collaborators answer: env is what
\* the validation, the simulator cache, the settings store and the install
\* tools do, o the settled promise of executeCommandStreaming
Build(a, env, o) ==
    /\ nBuilds < MaxBuilds
    /\ nBuilds' = nBuilds + 1
    /\ LET preferredConfig == getPreferredBuildConfig(preferredBuildConfig, a.projectPath)
           config == finalConfig(a, env, preferredConfig)
           result == resultOf(o)
           summary == extractBuildSummary(result.stdout, result.stderr, result.code)
           success == buildSuccess(summary, result)
           invocation(r) == Some([args |-> a, env |-> env, outcome |-> o,
                                  calls |-> callsOf(a, env, o, config, success),
                                  result |-> r])
       IN  IF completes(env, o)
           THEN /\ buildHistory' = [buildHistory EXCEPT ![a.projectPath] =
                                        nextHistory(@, [success |-> success])]
                /\ preferredBuildConfig' = [preferredBuildConfig EXCEPT ![a.projectPath] =
                                               nextPreferred(@, config, success)]
                /\ simulatorUsage' =
                       IF usageUdid(config) # None
                       THEN Append(simulatorUsage, [udid |-> usageUdid(config)[1],
                                                    projectPath |-> a.projectPath])
                       ELSE simulatorUsage
                /\ IF continuesPastSettings(env, config, success)
                   THEN /\ cache' = cleanup(Append(cache,
                                        CachedResponse(storeData(a, config, result, summary),
                                                       NewHandle, now)), now)
                        /\ issued' = Append(issued, now)
                        /\ Persist
                        /\ build' = invocation(Returned(
                                        responseData(NewHandle, a, preferredConfig, config,
                                                     result, summary,
                                                     autoInstallResult(a, env, success)),
                                        ~summary.success))
                   ELSE /\ UNCHANGED <<cache, issued, saveStateTimeout, timers, nextTimer>>
                        /\ build' = invocation(Thrown)
           ELSE /\ UNCHANGED <<buildHistory, preferredBuildConfig, simulatorUsage, cache,
                               issued, saveStateTimeout, timers, nextTimer>>
                /\ build' = invocation(Thrown)
    /\ UNCHANGED <<now, enabled, load, disk, saving>>
    /\ UNCHANGED <<resolveVars, execVars, summaryVars>>

\* the inputs of the invocations the model makes
L_warning == <<"a.swift:1:", "warning:", "unused">>
L_error == <<" ", "a.swift:2:", "error:", "boom", " ">>
L_fatal == <<"The", "device", "is", "passcode", "protected">>
D_hex == <<"p", "l", "a", "t", "f", "o", "r", "m", "=", "i", "O", "S", " ", "S", "i", "m", "u", "l", "a", "t", "o", "r", ",", "i", "d", "=", "A", "B", "C", "-", "1", "2", "3">>
D_named == <<"p", "l", "a", "t", "f", "o", "r", "m", "=", "i", "O", "S", " ", "S", "i", "m", "u", "l", "a", "t", "o", "r", ",", "n", "a", "m", "e", "=", "i", "P", "h", "o", "n", "e", " ", "1", "5">>

\* what executeCommandStreaming resolves with
Run(out, err, code, timeout, fatal) ==
    [stdout |-> out, stderr |-> err, code |-> code, timedOut |-> timeout,
     fatalMatch |-> fatal]

RunResults ==
    { Run(<<L_warning, M_buildSucceeded>>, <<>>, 0, FALSE, None),
      Run(<<L_warning, L_error, M_buildFailed>>, <<>>, 65, FALSE, None),
      Run(<<>>, <<>>, 0, FALSE, None),
      Run(<<M_buildSucceeded>>, <<>>, 0, TRUE, None),
      Run(<<M_buildCompleted>>, <<L_fatal>>, 0, FALSE, Some(L_fatal)),
      Run(<<L_error>>, <<L_fatal>>, 0, FALSE, Some(L_fatal)),
      Run(<<L_warning, L_error>>, <<L_fatal>>, 0, TRUE, Some(L_fatal)) }

\* the settled promises of executeCommandStreaming
Outcomes ==
    { resolve(Pending, r) : r \in RunResults }
    \cup { reject(Pending, "spawn"), reject(Pending, "maxBuffer") }

BuildArgs ==
    [projectPath     : {"SpaceTime.xcodeproj"},
     scheme          : {"MyApp"},
     configuration   : {NotProvided, Provided(Some("Release"))},
     destination     : {NotProvided, Provided(None), Provided(Some(D_iosCached)),
                        Provided(Some(D_hex)), Provided(Some(D_named))},
     sdk             : {NotProvided},
     derivedDataPath : {NotProvided},
     autoInstall     : {FALSE},
     simulatorUdid   : {None},
     bootSimulator   : {TRUE}]

\* what the collaborators do: valid is false when the validation throws, list
\* and preferredSim are the simulator cache's answers, configOk is false when
\* the settings store fails; appPath tells whether findBuildArtifacts finds an
\* app, bestSimulator is what getBestSimulator suggests, bootOk is false when
\* simctlBootTool throws, install is what simctlInstallTool does ("ok",
\* "isError" for an error result, "throws")
NoInstall == [appPath |-> TRUE, bestSimulator |-> None, bootOk |-> TRUE, install |-> "ok"]

WithInstall(e, i) ==
    [valid |-> e.valid, list |-> e.list, preferredSim |-> e.preferredSim,
     configOk |-> e.configOk, appPath |-> i.appPath, bestSimulator |-> i.bestSimulator,
     bootOk |-> i.bootOk, install |-> i.install]

Envs ==
    { WithInstall([valid |-> TRUE, list |-> l, preferredSim |-> None, configOk |-> TRUE],
                  NoInstall) :
         l \in { x \in Listings : x # None /\ x # Some(<<>>) } }
    \cup { WithInstall([valid |-> TRUE, list |-> None, preferredSim |-> None,
                        configOk |-> FALSE], NoInstall),
           WithInstall([valid |-> FALSE, list |-> None, preferredSim |-> None,
                        configOk |-> TRUE], NoInstall) }

\* the inputs of the invocations that ask for an install
InstallArgs ==
    [projectPath     : {"SpaceTime.xcodeproj"},
     scheme          : {"MyApp"},
     configuration   : {NotProvided},
     destination     : {Provided(Some(D_hex))},
     sdk             : {NotProvided},
     derivedDataPath : {NotProvided},
     autoInstall     : BOOLEAN,
     simulatorUdid   : {None, Some(U_tv)},
     bootSimulator   : BOOLEAN]

InstallEnvs ==
    { WithInstall([valid |-> TRUE, list |-> None, preferredSim |-> None, configOk |-> c], i) :
         c \in BOOLEAN,
         i \in { [appPath |-> TRUE, bestSimulator |-> Some(U_phone), bootOk |-> TRUE,
                  install |-> "ok"],
                 [appPath |-> TRUE, bestSimulator |-> Some(U_phone), bootOk |-> FALSE,
                  install |-> "ok"],
                 [appPath |-> FALSE, bestSimulator |-> Some(U_phone), bootOk |-> TRUE,
                  install |-> "ok"],
                 [appPath |-> TRUE, bestSimulator |-> None, bootOk |-> TRUE,
                  install |-> "ok"],
                 [appPath |-> TRUE, bestSimulator |-> Some(U_phone), bootOk |-> TRUE,
                  install |-> "isError"],
                 [appPath |-> TRUE, bestSimulator |-> None, bootOk |-> FALSE,
                  install |-> "throws"] } }

InstallOutcomes ==
    { resolve(Pending, Run(<<L_warning, M_buildSucceeded>>, <<>>, 0, FALSE, None)),
      resolve(Pending, Run(<<L_warning, L_error, M_buildFailed>>, <<>>, 65, FALSE, None)),
      resolve(Pending, Run(<<M_buildSucceeded>>, <<>>, 0, TRUE, None)) }

----------------------------------------------------------------------------
\* Specifications
\* Each takes one component through its operations from its initial states;
\* the other components stay as they are when nothing has used them.

\* the response cache from its construction
InitCache ==
    /\ cache = <<>>
    /\ now = 0
    /\ issued = <<>>
    /\ enabled \in BOOLEAN
    /\ disk \in DiskStates
    /\ load = [status |-> IF enabled THEN "loading" ELSE "none", data |-> disk]
    /\ saveStateTimeout = 0
    /\ timers = {}
    /\ nextTimer = 1
    /\ saving = {}
    /\ params = [explicitDestination |-> None, preferredConfig |-> None, sdk |-> None,
                 preferredSim |-> None, list |-> None]
    /\ resolved = None
    /\ options = [fatalPatterns |-> <<>>, maxBuffer |-> 0]
    /\ stdout = <<>>
    /\ stderr = <<>>
    /\ timedOut = FALSE
    /\ fatalMatch = None
    /\ child = "closed"
    /\ killed = FALSE
    /\ timeoutId = FALSE
    /\ promise = Pending
    /\ fatalCalls = <<>>
    /\ nChunks = 0
    /\ preferredBuildConfig = [p \in Projects |-> None]
    /\ buildHistory = [p \in Projects |-> <<>>]
    /\ build = None
    /\ nBuilds = 0
    /\ simulatorUsage = <<>>
    /\ summaryArgs = [output |-> <<>>, stderr |-> <<>>, exitCode |-> 0]
    /\ summaryResult = None

SpecCache == InitCache /\ [][NextCache]_vars

\* what is stored while persistence is switched on and off: when a save is
\* scheduled or performed does not depend on the data
PersistData == { d \in DataSet : d.tool = "simctl-list" }

\* the response cache with a persistence collaborator that is switched on and
\* off while the cache is in use; the operations are those that load, schedule
\* or perform saves (get and delete do neither)
NextPersist ==
    \/ \E data \in PersistData : TimersLeft(MaxTimers) /\ Store(data)
    \/ TimersLeft(MaxTimers) /\ Clear
    \/ LoadDone
    \/ LoadFail
    \/ \E t \in timers : TimerFire(t)
    \/ \E s \in saving : SaveOk(s)
    \/ \E s \in saving : SaveFail(s)
    \/ Tick
    \/ \E b \in BOOLEAN : SetEnabled(b)

SpecPersist == InitCache /\ [][NextPersist]_vars

\* store operations only, from any state the startup leaves: persistence
\* disabled, or the startup load settled (loaded and cleaned up, or failed)
InitStores ==
    /\ now = 0
    /\ issued = <<>>
    /\ enabled \in BOOLEAN
    /\ disk \in DiskStates
    /\ load \in IF enabled
                THEN { [status |-> st, data |-> disk] : st \in {"done", "failed"} }
                ELSE { [status |-> "none", data |-> disk] }
    /\ cache = IF load.status = "done" /\ load.data # None
               THEN cleanup(load.data[1], now) ELSE <<>>
    /\ saveStateTimeout = 0
    /\ timers = {}
    /\ nextTimer = 1
    /\ saving = {}
    /\ params = [explicitDestination |-> None, preferredConfig |-> None, sdk |-> None,
                 preferredSim |-> None, list |-> None]
    /\ resolved = None
    /\ options = [fatalPatterns |-> <<>>, maxBuffer |-> 0]
    /\ stdout = <<>>
    /\ stderr = <<>>
    /\ timedOut = FALSE
    /\ fatalMatch = None
    /\ child = "closed"
    /\ killed = FALSE
    /\ timeoutId = FALSE
    /\ promise = Pending
    /\ fatalCalls = <<>>
    /\ nChunks = 0
    /\ preferredBuildConfig = [p \in Projects |-> None]
    /\ buildHistory = [p \in Projects |-> <<>>]
    /\ build = None
    /\ nBuilds = 0
    /\ simulatorUsage = <<>>
    /\ summaryArgs = [output |-> <<>>, stderr |-> <<>>, exitCode |-> 0]
    /\ summaryResult = None

NextStores ==
    \/ \E data \in DataSet : TimersLeft(MaxTimers) /\ Store(data)
    \/ \E t \in timers : TimerFire(t)
    \/ \E s \in saving : SaveOk(s)
    \/ \E s \in saving : SaveFail(s)
    \/ Tick

SpecStores == InitStores /\ [][NextStores]_vars

\* bursts of mutations and their saves, from any state the startup leaves
NextSaves ==
    \/ \E data \in DataSet : TimersLeft(BurstTimers) /\ Store(data)
    \/ TimersLeft(BurstTimers) /\ Clear
    \/ \E t \in timers : TimerFire(t)
    \/ \E s \in saving : SaveOk(s)
    \/ \E s \in saving : SaveFail(s)
    \/ Tick

SpecSaves == InitStores /\ [][NextSaves]_vars

\* a mutation that schedules a save leaves the clock room for the timer to
\* become due
RoomToFlush == now + SaveDelay <= MaxTime

\* the mutating operations and the timers they arm, with the saves the timers
\* start left in flight: saving then holds every saveState call made so far
NextFlush ==
    \/ \E data \in PersistData : TimersLeft(MaxTimers) /\ RoomToFlush /\ Store(data)
    \/ \E id \in Handles : Delete(id)
    \/ TimersLeft(MaxTimers) /\ RoomToFlush /\ Clear
    \/ \E t \in timers : TimerFire(t)
    \/ Tick

\* time passes, and a timer that is due fires: the event loop runs the callback
SpecFlush ==
    /\ InitStores
    /\ [][NextFlush]_vars
    /\ WF_vars(Tick)
    /\ WF_vars(\E t \in timers : TimerFire(t))

\* one call of resolveDestination
InitResolve ==
    /\ cache = <<>>
    /\ now = 0
    /\ issued = <<>>
    /\ enabled = FALSE
    /\ load = [status |-> "none", data |-> None]
    /\ disk = None
    /\ saveStateTimeout = 0
    /\ timers = {}
    /\ nextTimer = 1
    /\ saving = {}
    /\ params \in [explicitDestination : ExplicitDestinations,
                   preferredConfig : PreferredConfigs,
                   sdk : Sdks,
                   preferredSim : PreferredSims,
                   list : Listings]
    /\ resolved = None
    /\ options = [fatalPatterns |-> <<>>, maxBuffer |-> 0]
    /\ stdout = <<>>
    /\ stderr = <<>>
    /\ timedOut = FALSE
    /\ fatalMatch = None
    /\ child = "closed"
    /\ killed = FALSE
    /\ timeoutId = FALSE
    /\ promise = Pending
    /\ fatalCalls = <<>>
    /\ nChunks = 0
    /\ preferredBuildConfig = [p \in Projects |-> None]
    /\ buildHistory = [p \in Projects |-> <<>>]
    /\ build = None
    /\ nBuilds = 0
    /\ simulatorUsage = <<>>
    /\ summaryArgs = [output |-> <<>>, stderr |-> <<>>, exitCode |-> 0]
    /\ summaryResult = None

NextResolve == Resolve

SpecResolve == InitResolve /\ [][NextResolve]_vars

\* one call of executeCommandStreaming
InitExec ==
    /\ cache = <<>>
    /\ now = 0
    /\ issued = <<>>
    /\ enabled = FALSE
    /\ load = [status |-> "none", data |-> None]
    /\ disk = None
    /\ saveStateTimeout = 0
    /\ timers = {}
    /\ nextTimer = 1
    /\ saving = {}
    /\ params = [explicitDestination |-> None, preferredConfig |-> None, sdk |-> None,
                 preferredSim |-> None, list |-> None]
    /\ resolved = None
    /\ options \in [fatalPatterns : PatternLists, maxBuffer : MaxBuffers]
    /\ stdout = <<>>
    /\ stderr = <<>>
    /\ timedOut = FALSE
    /\ fatalMatch = None
    /\ child = "running"
    /\ killed = FALSE
    /\ timeoutId = TRUE
    /\ promise = Pending
    /\ fatalCalls = <<>>
    /\ nChunks = 0
    /\ preferredBuildConfig = [p \in Projects |-> None]
    /\ buildHistory = [p \in Projects |-> <<>>]
    /\ build = None
    /\ nBuilds = 0
    /\ simulatorUsage = <<>>
    /\ summaryArgs = [output |-> <<>>, stderr |-> <<>>, exitCode |-> 0]
    /\ summaryResult = None

SpecExec == InitExec /\ [][NextExec]_vars

\* one call of executeCommandStreaming in which the timer fires unless it is
\* cleared, and a child that has been killed closes
SpecExecFair ==
    /\ InitExec
    /\ [][NextExec]_vars
    /\ WF_vars(Timeout)
    /\ WF_vars(killed /\ \E code \in ExitCodes : Close(code))

\* the project preference cache from empty
InitPrefs ==
    /\ cache = <<>>
    /\ now = 0
    /\ issued = <<>>
    /\ enabled = FALSE
    /\ load = [status |-> "none", data |-> None]
    /\ disk = None
    /\ saveStateTimeout = 0
    /\ timers = {}
    /\ nextTimer = 1
    /\ saving = {}
    /\ params = [explicitDestination |-> None, preferredConfig |-> None, sdk |-> None,
                 preferredSim |-> None, list |-> None]
    /\ resolved = None
    /\ options = [fatalPatterns |-> <<>>, maxBuffer |-> 0]
    /\ stdout = <<>>
    /\ stderr = <<>>
    /\ timedOut = FALSE
    /\ fatalMatch = None
    /\ child = "closed"
    /\ killed = FALSE
    /\ timeoutId = FALSE
    /\ promise = Pending
    /\ fatalCalls = <<>>
    /\ nChunks = 0
    /\ preferredBuildConfig = [p \in Projects |-> None]
    /\ buildHistory = [p \in Projects |-> <<>>]
    /\ build = None
    /\ nBuilds = 0
    /\ simulatorUsage = <<>>
    /\ summaryArgs = [output |-> <<>>, stderr |-> <<>>, exitCode |-> 0]
    /\ summaryResult = None

SpecPrefs == InitPrefs /\ [][NextPrefs]_vars

\* the build tool from a fresh process: empty caches, persistence off
InitBuild ==
    /\ cache = <<>>
    /\ now = 0
    /\ issued = <<>>
    /\ enabled = FALSE
    /\ load = [status |-> "none", data |-> None]
    /\ disk = None
    /\ saveStateTimeout = 0
    /\ timers = {}
    /\ nextTimer = 1
    /\ saving = {}
    /\ params = [explicitDestination |-> None, preferredConfig |-> None, sdk |-> None,
                 preferredSim |-> None, list |-> None]
    /\ resolved = None
    /\ options = [fatalPatterns |-> <<>>, maxBuffer |-> 0]
    /\ stdout = <<>>
    /\ stderr = <<>>
    /\ timedOut = FALSE
    /\ fatalMatch = None
    /\ child = "closed"
    /\ killed = FALSE
    /\ timeoutId = FALSE
    /\ promise = Pending
    /\ fatalCalls = <<>>
    /\ nChunks = 0
    /\ preferredBuildConfig = [p \in Projects |-> None]
    /\ buildHistory = [p \in Projects |-> <<>>]
    /\ build = None
    /\ nBuilds = 0
    /\ simulatorUsage = <<>>
    /\ summaryArgs = [output |-> <<>>, stderr |-> <<>>, exitCode |-> 0]
    /\ summaryResult = None

NextBuild == \E a \in BuildArgs, env \in Envs, o \in Outcomes : Build(a, env, o)

SpecBuild == InitBuild /\ [][NextBuild]_vars

\* one call of extractBuildSummary on some output
InitSummary ==
    /\ cache = <<>>
    /\ now = 0
    /\ issued = <<>>
    /\ enabled = FALSE
    /\ load = [status |-> "none", data |-> None]
    /\ disk = None
    /\ saveStateTimeout = 0
    /\ timers = {}
    /\ nextTimer = 1
    /\ saving = {}
    /\ params = [explicitDestination |-> None, preferredConfig |-> None, sdk |-> None,
                 preferredSim |-> None, list |-> None]
    /\ resolved = None
    /\ options = [fatalPatterns |-> <<>>, maxBuffer |-> 0]
    /\ stdout = <<>>
    /\ stderr = <<>>
    /\ timedOut = FALSE
    /\ fatalMatch = None
    /\ child = "closed"
    /\ killed = FALSE
    /\ timeoutId = FALSE
    /\ promise = Pending
    /\ fatalCalls = <<>>
    /\ nChunks = 0
    /\ preferredBuildConfig = [p \in Projects |-> None]
    /\ buildHistory = [p \in Projects |-> <<>>]
    /\ build = None
    /\ nBuilds = 0
    /\ simulatorUsage = <<>>
    /\ summaryArgs \in SummaryInputs
    /\ summaryResult = None

NextSummary == Summarise

SpecSummary == InitSummary /\ [][NextSummary]_vars

\* the build tool asked to install what it builds
NextInstall ==
    \E a \in InstallArgs, env \in InstallEnvs, o \in InstallOutcomes : Build(a, env, o)

SpecInstall == InitBuild /\ [][NextInstall]_vars

----------------------------------------------------------------------------
\* The claims

\* C1: a get(handle) issued right after store(data), with no time elapsed and
\* nothing in between, returns an entry with the stored tool, fullOutput, stderr,
\* exitCode, command and metadata, whose id is the handle store returned and
\* whose timestamp is the time of the store.
C1_StoreThenGet ==
    [][\A data \in DataSet :
         Store(data) =>
            LET got == GetResult(cache', now', Len(issued'))
            IN  /\ got # None
                /\ \A f \in DataFields : got[1][f] = data[f]
                /\ got[1].id = Len(issued')
                /\ got[1].timestamp = now]_vars

\* the handle stored last is in a full cache that has already evicted entries
C1_Witness ==
    /\ Len(issued) > maxEntries
    /\ Len(cache) = maxEntries
    /\ \E i \in 1..Len(cache) : cache[i].id = Len(issued) /\ cache[i].timestamp = now

\* the handles stored so far that have not expired by now
Unexpired == { i \in 1..Len(issued) : ~(now - issued[i] > maxAge) }

\* C2: after any sequence of stores the cache never holds more than maxEntries
\* entries; once more than maxEntries unexpired responses have been stored,
\* exactly maxEntries remain and they are the ones stored last.
C2_BoundedNewest ==
    /\ Len(cache) <= maxEntries
    /\ Cardinality(Unexpired) > maxEntries =>
          /\ Len(cache) = maxEntries
          /\ Ids(cache) = (Len(issued) - maxEntries + 1)..Len(issued)

\* more than maxEntries unexpired responses stored, and the oldest of them evicted
C2_Witness ==
    /\ Cardinality(Unexpired) > maxEntries
    /\ \E i \in Unexpired : i \notin Ids(cache)
    /\ Len(cache) = maxEntries

\* C3: an entry older than maxAge is never returned by get; the get that finds
\* it returns not-found and removes it; a store purges every such entry.
C3_ExpiredUnreachable ==
    /\ [](\A id \in Handles :
            LET got == GetResult(cache, now, id)
            IN  got # None => now - got[1].timestamp <= maxAge)
    /\ [][\A id \in Handles :
            (Get(id) /\ \E i \in 1..Len(cache) :
                           cache[i].id = id /\ now - cache[i].timestamp > maxAge)
               => GetResult(cache, now, id) = None /\ id \notin Ids(cache')]_vars
    /\ [][(\E data \in DataSet : Store(data))
             => \A i \in 1..Len(cache') : now' - cache'[i].timestamp <= maxAge]_vars

\* a handle this process issued has expired and is gone, though the cache was
\* never full nor cleared: its younger neighbour is still there
C3_Witness ==
    /\ Len(issued) = maxEntries
    /\ now - issued[1] > maxAge
    /\ Ids(cache) = {maxEntries}

\* the request has no explicit destination (absent or blank)
NoExplicit == ~(params.explicitDestination # None
                /\ \E i \in 1..Len(params.explicitDestination[1]) :
                      params.explicitDestination[1][i] # " ")

\* the cached preferred destination, None when there is none
Cached ==
    IF params.preferredConfig = None THEN None
    ELSE IF params.preferredConfig[1].destination = Some(<<>>) THEN None
    ELSE params.preferredConfig[1].destination

\* C4: an explicit, non-blank destination is returned unchanged whatever the
\* cached preference, the SDK and the simulator cache hold, and the simulator
\* cache is not queried.
C4_ExplicitWins ==
    (resolved # None /\ ~NoExplicit) =>
        /\ resolved[1].destination = params.explicitDestination
        /\ ~resolved[1].queried

\* an explicit destination was resolved against a cached simulator destination
\* and the macosx SDK, with simulators available
C4_Witness ==
    /\ resolved # None
    /\ params.explicitDestination = Some(D_anyMac)
    /\ Cached = Some(D_iosCached)
    /\ params.sdk = Some(K_macosx)
    /\ params.list # None /\ params.list # Some(<<>>)
    /\ resolved[1].destination = Some(D_anyMac)

\* the cached destinations of the inputs that name a simulator
SimulatorDestinations == { D_iosCached, D_tvCached, D_idOnly }

\* C5: with no explicit destination and SDK "macosx", no destination is resolved
\* for any cached simulator destination, whatever its textual form, and the
\* simulator suggestion is not used.
C5_MacNeverSimulator ==
    (/\ resolved # None
     /\ NoExplicit
     /\ params.sdk = Some(K_macosx)
     /\ Cached # None
     /\ Cached[1] \in SimulatorDestinations)
        => resolved[1].destination = None /\ ~resolved[1].queried

\* the platform the claim reads off a cached destination's 'platform=' part
\* and off an SDK, for the inputs of the model (None: unknown)
PlatformOfDestination(d) ==
    IF d \in {D_iosCached} THEN Some(S_ios)
    ELSE IF d \in {D_tvCached} THEN Some(S_tvos)
    ELSE IF d \in {D_macCached, D_anyMac} THEN Some(S_macos)
    ELSE None

PlatformOfSdk(k) ==
    IF k \in {Some(K_macosx)} THEN Some(S_macos)
    ELSE IF k \in {Some(K_iphonesimulator), Some(K_iphoneos)} THEN Some(S_ios)
    ELSE IF k \in {Some(K_tvossimulator), Some(K_appletvos)} THEN Some(S_tvos)
    ELSE None

\* C6: with no explicit destination, a cached destination is returned verbatim
\* when its platform is compatible with the SDK's (either unknown, or equal),
\* and is not returned when both are known and differ.
C6_CachedIffCompatible ==
    (resolved # None /\ NoExplicit /\ Cached # None) =>
        LET sdkPlatform == PlatformOfSdk(params.sdk)
            destPlatform == PlatformOfDestination(Cached[1])
        IN  IF sdkPlatform = None \/ destPlatform = None \/ sdkPlatform = destPlatform
            THEN resolved[1].destination = Cached
            ELSE resolved[1].destination # Cached

\* a cached iOS destination was passed over for tvossimulator, in favour of a
\* simulator suggestion
C6_Witness ==
    /\ resolved # None
    /\ NoExplicit
    /\ params.sdk = Some(K_tvossimulator)
    /\ Cached = Some(D_iosCached)
    /\ resolved[1].destination # None
    /\ resolved[1].destination # Cached

\* C7: recordBuildResult with success=false leaves what getPreferredBuildConfig
\* returns for the project unchanged; with success=true it makes it return the
\* recorded config; after any earlier recordings.
C7_FailureKeepsPreferred ==
    [][\A project \in Projects, config \in BuildConfigs, success \in BOOLEAN :
          recordBuildResult(project, config, success) =>
             IF success
             THEN getPreferredBuildConfig(preferredBuildConfig', project) = Some(config)
             ELSE getPreferredBuildConfig(preferredBuildConfig', project)
                     = getPreferredBuildConfig(preferredBuildConfig, project)]_vars

\* a failure was recorded after a success, and the preference is still there
C7_Witness ==
    \E project \in Projects :
        /\ Len(buildHistory[project]) = 2
        /\ buildHistory[project][1].success
        /\ ~buildHistory[project][2].success
        /\ getPreferredBuildConfig(preferredBuildConfig, project) # None

\* C8: the first chunk (stdout or stderr) that matches a fatal pattern records
\* the match of the first matching pattern in list order, invokes onFatalMatch
\* once with it and kills the child; after that fatalMatch never changes and
\* onFatalMatch is not invoked again.
C8_FatalMatchOnce ==
    [][\A chunk \in Chunks :
          (StdoutData(chunk) \/ StderrData(chunk)) =>
             LET i == FirstMatching(chunk, options.fatalPatterns)
             IN  IF fatalCalls = <<>> /\ i # 0
                 THEN /\ fatalMatch' = match(chunk, options.fatalPatterns[i])
                      /\ fatalCalls' = <<fatalMatch'[1]>>
                      /\ killed'
                 ELSE /\ fatalMatch' = fatalMatch
                      /\ fatalCalls' = fatalCalls]_vars

\* C9 as claimed: once the timeout has fired the child is killed and the call is
\* not rejected, and it resolves with timedOut=true; a call that resolves
\* without the timeout having fired has timedOut=false.
C9_TimeoutNeverRejected ==
    /\ timedOut =>
          /\ killed
          /\ promise.state # "rejected"
          /\ promise.state = "resolved" => promise.value[1].timedOut
    /\ (~timedOut /\ promise.state = "resolved") => ~promise.value[1].timedOut

\* C9 as amended: once the timeout has fired the child is killed, and when the
\* child closes the call has resolved with timedOut=true, unless stdout went
\* beyond maxBuffer in between, which rejects it with the buffer error; a call
\* whose child closes with no timeout fired resolves with timedOut=false unless
\* it was rejected.
C9_TimeoutResolvesUnlessOverflow ==
    /\ timedOut =>
          /\ killed
          /\ promise.state = "resolved" => promise.value[1].timedOut
          /\ promise.state = "rejected" =>
                promise.error = "maxBuffer" /\ Len(stdout) > options.maxBuffer
          /\ (child = "closed" /\ Len(stdout) <= options.maxBuffer) =>
                promise.state = "resolved"
    /\ ~timedOut =>
          /\ promise.state = "resolved" => ~promise.value[1].timedOut
          /\ child = "closed" => promise.state # "pending"

\* the timeout fired, the child closed afterwards and the call resolved
C9_Witness ==
    /\ timedOut
    /\ child = "closed"
    /\ promise.state = "resolved"
    /\ promise.value[1].timedOut

\* C10: once the accumulated stdout exceeds maxBuffer the child has been killed
\* and the call is rejected with the buffer-exceeded error, and stays so when
\* the child closes.
C10_OverflowRejects ==
    Len(stdout) > options.maxBuffer =>
        /\ killed
        /\ promise.state = "rejected"
        /\ promise.error = "maxBuffer"

\* stdout went beyond maxBuffer and the child has closed since
C10_Witness ==
    /\ Len(stdout) > options.maxBuffer
    /\ child = "closed"
    /\ promise.state = "rejected"

\* C11: a resolved result is a normal exit, a fatal match or a timeout and never
\* two of them: no resolved result has both timedOut=true and a fatalMatch.
C11_ExclusiveClasses ==
    promise.state = "resolved" =>
        ~(promise.value[1].timedOut /\ promise.value[1].fatalMatch # None)

\* the tool names and limits getRecentByTool is asked with
ToolNames == {"xcodebuild-build", "simctl-list", "xcodebuild-test"}
Limits == {0, 1, 2, DefaultLimit}

\* the entries of the cache that carry the tool
OfTool(tool) == SelectSeq(cache, LAMBDA e : e.tool = tool)

\* C14: getRecentByTool(tool, limit) returns only entries of that tool, newest
\* first, min(limit, number of entries of that tool) of them, and no entry it
\* leaves out is more recent than one it returns; a tool with no entry yields
\* the empty list.
C14_RecentByTool ==
    \A tool \in ToolNames, limit \in Limits :
        LET got == getRecentByTool(cache, tool, limit)
            n   == Len(OfTool(tool))
        IN  /\ \A i \in 1..Len(got) : got[i].tool = tool /\ got[i].id \in Ids(cache)
            /\ \A i, j \in 1..Len(got) : i < j =>
                  got[i].timestamp >= got[j].timestamp /\ got[i].id # got[j].id
            /\ Len(got) = IF limit < n THEN limit ELSE n
            /\ \A k \in 1..n :
                  OfTool(tool)[k].id \notin Ids(got) =>
                     \A i \in 1..Len(got) : got[i].timestamp >= OfTool(tool)[k].timestamp
            /\ n = 0 => got = <<>>

\* two entries of one tool stored at different times, of which a limit of 1
\* returns the later one only
C14_Witness ==
    \E tool \in ToolNames :
        /\ Len(OfTool(tool)) = 2
        /\ OfTool(tool)[1].timestamp < OfTool(tool)[2].timestamp
        /\ getRecentByTool(cache, tool, 1) = <<OfTool(tool)[2]>>
        /\ Len(getRecentByTool(cache, tool, DefaultLimit)) = 2

\* C15: getRecentByTool returns no expired entry: whatever came before, no entry
\* of its result is older than maxAge at the time of the call.
C15_RecentNeverExpired ==
    \A tool \in ToolNames, limit \in Limits :
        LET got == getRecentByTool(cache, tool, limit)
        IN  \A i \in 1..Len(got) : now - got[i].timestamp <= maxAge

\* C16 as claimed: get returns an entry only while now - timestamp < maxAge
\* holds strictly; an entry whose age is exactly maxAge is not returned.
C16_StrictlyYounger ==
    \A id \in Handles :
        LET got == GetResult(cache, now, id)
        IN  got # None => now - got[1].timestamp < maxAge

\* C16 as amended: get returns an entry of the cache exactly while its age is at
\* most maxAge; an entry whose age is exactly maxAge is still returned, and one
\* that is older is not.
C16_ReturnedWhileNotOlder ==
    \A i \in 1..Len(cache) :
        /\ now - cache[i].timestamp <= maxAge =>
              GetResult(cache, now, cache[i].id) = Some(cache[i])
        /\ now - cache[i].timestamp > maxAge =>
              GetResult(cache, now, cache[i].id) = None

\* an entry whose age is exactly maxAge is in the cache and get returns it
C16_Witness ==
    \E i \in 1..Len(cache) :
        /\ now - cache[i].timestamp = maxAge
        /\ GetResult(cache, now, cache[i].id) = Some(cache[i])

\* a debounced save has just been scheduled by the step
SaveScheduled ==
    /\ saveStateTimeout' # saveStateTimeout
    /\ \E t \in timers' : t.id = saveStateTimeout' /\ t.due = now + SaveDelay
    /\ \A t \in timers' : t.id = saveStateTimeout' \/ t \in timers

\* C17: with persistence enabled, every delete(handle) that removes an entry
\* and every clear() schedules a debounced save.
C17_RemovalsPersist ==
    [][enabled =>
          /\ \A id \in Handles : (Delete(id) /\ id \in Ids(cache)) => SaveScheduled
          /\ Clear => SaveScheduled]_vars

\* C18: no loadState and no saveState call happens while isEnabled() is false,
\* whatever operations and whatever enabling and disabling came before: the
\* timer callback calls saveState only while enabled, and a load is under way
\* only if the cache was constructed while enabled.
C18_NoSaveWhileDisabled ==
    /\ [][\A t \in timers : TimerFire(t) => enabled]_vars
    /\ [][load.status = "none" => load'.status = "none"]_vars

\* the handle in saveStateTimeout is of a timer that has fired and whose save
\* has failed: it is neither pending nor being saved
StaleTimeout ==
    /\ saveStateTimeout # 0
    /\ \A t \in timers : t.id # saveStateTimeout
    /\ \A s \in saving : s.timer # saveStateTimeout

\* C19: a failed load or save does not reach the callers: after a failed load
\* the cache holds nothing of the persisted state, and store and get work as
\* usual; a failed save leaves the entries as they are, and a later store or
\* clear still schedules a save.
C19_PersistenceFailuresSwallowed ==
    /\ [](load.status = "failed" => Ids(cache) \subseteq 1..Len(issued))
    /\ [][\A data \in DataSet :
            (load.status = "failed" /\ Store(data)) =>
               LET got == GetResult(cache', now', Len(issued'))
               IN  got # None /\ \A f \in DataFields : got[1][f] = data[f]]_vars
    /\ [][\A s \in saving : SaveFail(s) => cache' = cache /\ disk' = disk]_vars
    /\ [][(StaleTimeout /\ enabled /\ (Clear \/ \E data \in DataSet : Store(data)))
             => SaveScheduled]_vars

\* the startup load has failed, a response stored since is in the cache, and a
\* save of it has failed as well
C19_Witness ==
    /\ load.status = "failed"
    /\ StaleTimeout
    /\ cache # <<>>
    /\ disk = load.data

\* C20: mutations that follow one another by less than the debounce delay lead
\* to a single saveState call: no two saves are pending whose mutations were
\* less than SaveDelay apart; a timer fires only once SaveDelay has passed
\* since the mutation that armed it, and the payload of the save is the cache
\* content at that moment.
C20_DebouncedSingleSave ==
    /\ [](\A t1, t2 \in timers :
             t1.id # t2.id => (t1.due - t2.due >= SaveDelay \/ t2.due - t1.due >= SaveDelay))
    /\ [][\A t \in timers :
            TimerFire(t) =>
               /\ now >= t.due
               /\ \E s \in saving' : s.timer = t.id /\ s.payload = cache]_vars

\* the latest invocation, once one has been made
Invoked == build # None
ReturnedResponse == Invoked /\ ~build[1].result.thrown
LatestRun == build[1].outcome.value[1]
LatestResponse == build[1].result.response[1]

\* the run of the latest invocation exited non-zero, timed out or was stopped
\* by a fatal pattern
FailedRun ==
    /\ Invoked
    /\ build[1].env.valid
    /\ build[1].outcome.state = "resolved"
    /\ (LatestRun.code # 0 \/ LatestRun.timedOut \/ LatestRun.fatalMatch # None)

\* C12: a build whose process exits non-zero, times out or is stopped by a
\* fatal pattern returns (does not throw) a response with success = false, the
\* error and warning summary of the run, and a buildId under which the
\* Response Cache holds the full output of that run.
C12_FailedBuildReturnsStructured ==
    FailedRun =>
        /\ ReturnedResponse
        /\ ~LatestResponse.success
        /\ LatestResponse.summary.errorCount
               = extractBuildSummary(LatestRun.stdout, LatestRun.stderr,
                                     LatestRun.code).errorCount
        /\ LatestResponse.warnings
               = LET w == extractBuildSummary(LatestRun.stdout, LatestRun.stderr,
                                              LatestRun.code).warnings
                 IN  IF w = <<>> THEN None ELSE Some(w)
        /\ Lookup(cache, LatestResponse.buildId) # None
        /\ Lookup(cache, LatestResponse.buildId)[1].fullOutput = LatestRun.stdout

\* the calls a step's invocation made
CallsMade(b) == { b[1].calls[i] : i \in 1..Len(b[1].calls) }

\* C13: when executeCommandStreaming rejects (the process could not be
\* spawned, the buffer was exceeded), the invocation throws an McpError, calls
\* none of recordBuildResult, recordSimulatorUsage and responseCache.store, and
\* leaves the project cache, the simulator cache and the response cache as
\* they were; an invocation whose run resolved returns and does not throw.
C13_RejectionThrowsRecordsNothing ==
    [][ (nBuilds' = nBuilds + 1 /\ build'[1].env.valid)
        => IF build'[1].outcome.state = "rejected"
           THEN /\ build'[1].result.thrown
                /\ build'[1].result.error = "McpError"
                /\ CallsMade(build') \cap {"recordBuildResult", "recordSimulatorUsage",
                                           "responseCache.store"} = {}
                /\ UNCHANGED <<preferredBuildConfig, buildHistory, simulatorUsage,
                               cache, issued>>
           ELSE ~build'[1].result.thrown ]_vars

\* a rejected run after a successful build has filled the three caches
C13_Witness ==
    /\ build # None
    /\ build[1].env.valid
    /\ build[1].outcome.state = "rejected"
    /\ build[1].outcome.error = "maxBuffer"
    /\ build[1].result.thrown
    /\ cache # <<>>
    /\ simulatorUsage # <<>>
    /\ preferredBuildConfig[build[1].args.projectPath] # None

\* the lines extractBuildSummary looks at: those of stdout, then those of stderr
SummaryLines == summaryArgs.output \o summaryArgs.stderr
HasSuccessMarker ==
    \E i \in 1..Len(SummaryLines) :
        includes(SummaryLines[i], M_buildSucceeded) \/ includes(SummaryLines[i], M_buildCompleted)
ErrorLines == SelectSeq(SummaryLines, LAMBDA l : includes(l, M_error) \/ includes(l, M_buildFailed))
WarningLines == SelectSeq(SummaryLines, LAMBDA l : includes(l, M_warning))

\* C21: extractBuildSummary returns success = true if and only if the exit code
\* is 0 and some line of stdout or stderr contains a success marker, whatever
\* error lines the output has.
C21_SuccessIffZeroAndMarker ==
    summaryResult # None =>
        (summaryResult[1].success <=> (summaryArgs.exitCode = 0 /\ HasSuccessMarker))

\* exit code 0 with a marker next to error lines
C21_Witness ==
    /\ summaryResult # None
    /\ summaryArgs.exitCode = 0
    /\ HasSuccessMarker
    /\ Len(ErrorLines) > 0
    /\ summaryResult[1].success

\* the first SummaryCap lines of s, each without its surrounding blanks
Exposed(s) ==
    [i \in 1..(IF Len(s) < SummaryCap THEN Len(s) ELSE SummaryCap) |-> trim(s[i])]

\* C22: the errors and warnings lists of a summary are the first 10 matching
\* lines in output order (all of them when there are fewer), while errorCount
\* and warningCount are the total numbers of matching lines, so that
\* length(errors) = min(10, errorCount) and length(warnings) = min(10, warningCount).
C22_CappedListsTrueCounts ==
    summaryResult # None =>
        LET r == summaryResult[1]
        IN  /\ r.errorCount = Len(ErrorLines)
            /\ r.warningCount = Len(WarningLines)
            /\ r.errors = Exposed(ErrorLines)
            /\ r.warnings = Exposed(WarningLines)
            /\ Len(r.errors) = (IF r.errorCount < 10 THEN r.errorCount ELSE 10)
            /\ Len(r.warnings) = (IF r.warningCount < 10 THEN r.warningCount ELSE 10)

\* more than ten error lines next to fewer than ten warning lines
C22_Witness ==
    /\ summaryResult # None
    /\ summaryResult[1].errorCount = 12
    /\ Len(summaryResult[1].errors) = 10
    /\ summaryResult[1].warningCount = 2
    /\ Len(summaryResult[1].warnings) = 2

\* the errors extractBuildSummary parsed from the latest run's output
ParsedErrors ==
    extractBuildSummary(LatestRun.stdout, LatestRun.stderr, LatestRun.code).errors
ResponseErrors ==
    IF LatestResponse.errors = None THEN <<>> ELSE LatestResponse.errors[1]

\* C23: when the executor reports a fatal pattern match, the errors list of the
\* build response holds a message that quotes the match, and every error
\* parsed from the build output comes after it.
C23_FatalMessageAheadOfParsed ==
    (ReturnedResponse /\ LatestRun.fatalMatch # None) =>
        \E i \in 1..Len(ResponseErrors) :
            /\ includes(ResponseErrors[i], LatestRun.fatalMatch[1])
            /\ ResponseErrors[i] \notin { ParsedErrors[k] : k \in 1..Len(ParsedErrors) }
            /\ SubSeq(ResponseErrors, i + 1, Len(ResponseErrors)) = ParsedErrors

\* a fatal match in a run that also timed out and whose output has error lines
C23_Witness ==
    /\ ReturnedResponse
    /\ LatestRun.fatalMatch # None
    /\ LatestRun.timedOut
    /\ Len(ParsedErrors) > 0
    /\ Len(ResponseErrors) = Len(ParsedErrors) + 2

\* the destination the latest build ran with, and whether it is the caller's
\* destination argument
AppliedDestination == LatestResponse.summary.destination
DestinationApplied == AppliedDestination # None /\ AppliedDestination[1] # <<>>
CallersDestination ==
    /\ build[1].args.destination.value # None
    /\ Len(trim(build[1].args.destination.value[1])) > 0
    /\ AppliedDestination = build[1].args.destination.value

\* C24: intelligence.usedSmartDestination is true exactly when a destination
\* was applied to the build and it did not come from the caller's destination
\* argument; it is false when the caller's destination was used and when no
\* destination was resolved.
C24_SmartDestinationIffNotCallers ==
    ReturnedResponse =>
        (LatestResponse.intelligence.usedSmartDestination
            <=> (DestinationApplied /\ ~CallersDestination))

\* a step that is an invocation returning a response
ReturningStep == nBuilds' = nBuilds + 1 /\ ~build'[1].result.thrown

\* the configuration the precedence caller, cache, 'Debug' gives in a step
ExpectedConfiguration ==
    LET a  == build'[1].args
        pc == preferredBuildConfig[a.projectPath]
    IN  IF a.configuration.value # None THEN a.configuration.value[1]
        ELSE IF pc # None THEN pc[1].configuration
        ELSE "Debug"

\* C25: the configuration of a build is the caller's if given, else the cached
\* preferred one, else 'Debug'; whenever the caller gives none and a cached
\* preferred configuration exists, usedSmartConfiguration is true.
C25_ConfigurationPrecedence ==
    [][ ReturningStep =>
          /\ build'[1].result.response[1].summary.configuration = ExpectedConfiguration
          /\ (/\ build'[1].args.configuration.value = None
              /\ preferredBuildConfig[build'[1].args.projectPath] # None)
             => build'[1].result.response[1].intelligence.usedSmartConfiguration ]_vars

\* the SDKs of the inputs that build for a physical device other than a Mac
DeviceSdks == { Some(K_iphoneos), Some(K_appletvos) }

\* there is no cached destination, or its platform is known and differs from
\* the SDK's
NoCompatibleCached ==
    \/ Cached = None
    \/ /\ PlatformOfDestination(Cached[1]) # None
       /\ PlatformOfSdk(params.sdk) # None
       /\ PlatformOfDestination(Cached[1]) # PlatformOfSdk(params.sdk)

\* C26: with no explicit destination and no compatible cached destination, an
\* SDK of a physical-device platform other than macOS resolves to no
\* destination, and the simulator cache is not consulted.
C26_DeviceSdkNoDestination ==
    (resolved # None /\ NoExplicit /\ NoCompatibleCached /\ params.sdk \in DeviceSdks)
        => resolved[1].destination = None /\ ~resolved[1].queried

\* iphoneos with a cached tvOS destination, a preferred simulator and
\* simulators available
C26_Witness ==
    /\ resolved # None
    /\ NoExplicit
    /\ params.sdk = Some(K_iphoneos)
    /\ Cached = Some(D_tvCached)
    /\ params.preferredSim = Some(U_phone)
    /\ params.list # None /\ params.list # Some(<<>>)
    /\ resolved[1].destination = None

\* no rule before the simulator suggestion applies: no explicit destination, no
\* compatible cached destination, and an SDK that is neither for the Mac nor
\* for a physical device
SuggestionTurn ==
    /\ NoExplicit
    /\ (Cached = None \/ NoCompatibleCached)
    /\ params.sdk \notin DeviceSdks \cup {Some(K_macosx)}

\* the devices of the listing, in listing order, each with its runtime
RECURSIVE DevicesFrom(_, _)
DevicesFrom(list, i) ==
    IF i > Len(list) THEN <<>>
    ELSE [j \in 1..Len(list[i].devices) |->
             [udid |-> list[i].devices[j].udid, runtime |-> list[i].runtime,
              isAvailable |-> list[i].devices[j].isAvailable]]
         \o DevicesFrom(list, i + 1)
ListedDevices == DevicesFrom(params.list[1], 1)

\* the platform label the claim derives from the runtimes of the inputs
LabelOfRuntime(runtime) ==
    IF runtime = R_ios THEN <<"i", "O", "S">> \o S_SimulatorSuffix
    ELSE <<"t", "v", "O", "S">> \o S_SimulatorSuffix

RuntimeFitsHint(runtime) ==
    \/ PlatformOfSdk(params.sdk) = None
    \/ (PlatformOfSdk(params.sdk) = Some(S_ios) /\ runtime = R_ios)
    \/ (PlatformOfSdk(params.sdk) = Some(S_tvos) /\ runtime = R_tvos)

\* the destination the claim gives: the preferred simulator, else the first
\* available device that fits the hint, else none
SuggestedDestination ==
    LET d == ListedDevices
        mine == { i \in 1..Len(d) : params.preferredSim = Some(d[i].udid) }
        fit  == { i \in 1..Len(d) : d[i].isAvailable /\ RuntimeFitsHint(d[i].runtime) }
        first(S) == CHOOSE i \in S : \A k \in S : i <= k
        dest(i) == S_platformEq \o LabelOfRuntime(d[i].runtime) \o <<",">>
                   \o S_idEq \o d[i].udid
    IN  IF /\ params.preferredSim # None
           /\ PlatformOfSdk(params.sdk) = None
           /\ mine = {}
        THEN Some(S_idEq \o params.preferredSim[1])
        ELSE IF mine # {} /\ RuntimeFitsHint(d[first(mine)].runtime)
        THEN Some(dest(first(mine)))
        ELSE IF fit # {} THEN Some(dest(first(fit)))
        ELSE None

SettingsFailedStep ==
    /\ nBuilds' = nBuilds + 1
    /\ ~build'[1].env.configOk
    /\ "recordSuccessfulBuild" \in CallsMade(build')

\* C28: when recordSuccessfulBuild (or creating the config manager) fails
\* during a successful build, the tool still returns the response with
\* success = true, and what recordBuildResult and recordSimulatorUsage did in
\* that invocation stays in effect.
C28_SettingsFailureIgnored ==
    [][ SettingsFailedStep =>
          LET p == build'[1].args.projectPath
          IN  /\ ~build'[1].result.thrown
              /\ build'[1].result.response[1].success
              /\ buildHistory'[p] = nextHistory(buildHistory[p], [success |-> TRUE])
              /\ preferredBuildConfig'[p] # None
              /\ preferredBuildConfig'[p][1].destination
                     = build'[1].result.response[1].summary.destination
              /\ Len(simulatorUsage') = Len(simulatorUsage) + 1
              /\ simulatorUsage'[Len(simulatorUsage')].projectPath = p ]_vars

\* a successful simulator build has returned although the settings store failed
C28_Witness ==
    /\ build # None
    /\ ~build[1].env.configOk
    /\ "recordSuccessfulBuild" \in CallsMade(build)
    /\ ~build[1].result.thrown
    /\ build[1].result.response[1].success
    /\ simulatorUsage # <<>>
    /\ preferredBuildConfig[build[1].args.projectPath] # None

\* the auto-install steps of the latest invocation, in the order they were made
InstallSteps ==
    SelectSeq(build[1].calls,
              LAMBDA c : c \in {"findBuildArtifacts", "getBestSimulator",
                                "findSimulatorByUdid", "simctlBootTool",
                                "simctlInstallTool"})
StepRank(c) ==
    IF c = "findBuildArtifacts" THEN 1
    ELSE IF c \in {"getBestSimulator", "findSimulatorByUdid"} THEN 2
    ELSE IF c = "simctlBootTool" THEN 3
    ELSE 4
InstallInvoked == \E i \in 1..Len(InstallSteps) : InstallSteps[i] = "simctlInstallTool"

\* C29: auto-install runs only when it was requested and the build succeeded;
\* its steps come in the order artifact discovery, simulator selection, boot,
\* install; the install step is not invoked when no app was found or no
\* simulator could be selected; a given simulatorUdid is used instead of the
\* suggestion of the simulator cache; a boot failure does not prevent the
\* install.
C29_AutoInstallChain ==
    Invoked =>
        LET a   == build[1].args
            env == build[1].env
        IN  /\ InstallSteps # <<>> =>
                   (a.autoInstall /\ ReturnedResponse /\ LatestResponse.success)
            /\ \A i, j \in 1..Len(InstallSteps) :
                   i < j => StepRank(InstallSteps[i]) < StepRank(InstallSteps[j])
            /\ InstallInvoked =>
                   (env.appPath /\ (a.simulatorUdid # None \/ env.bestSimulator # None))
            /\ (InstallSteps # <<>> /\ a.simulatorUdid # None) =>
                   /\ \A i \in 1..Len(InstallSteps) : InstallSteps[i] # "getBestSimulator"
                   /\ LatestResponse.autoInstall[1].success =>
                          LatestResponse.autoInstall[1].udid = a.simulatorUdid
            /\ (/\ InstallSteps # <<>>
                /\ env.appPath
                /\ (a.simulatorUdid # None \/ env.bestSimulator # None))
               => /\ InstallInvoked
                  /\ LatestResponse.autoInstall[1].success <=> (env.install = "ok")

\* an install to the given simulator has succeeded although the boot failed,
\* while the simulator cache suggested another one
C29_Witness ==
    /\ ReturnedResponse
    /\ build[1].args.autoInstall
    /\ build[1].args.bootSimulator
    /\ build[1].args.simulatorUdid = Some(U_tv)
    /\ build[1].env.bestSimulator = Some(U_phone)
    /\ ~build[1].env.bootOk
    /\ InstallSteps = <<"findBuildArtifacts", "findSimulatorByUdid", "simctlBootTool",
                        "simctlInstallTool">>
    /\ LatestResponse.autoInstall = Some([success |-> TRUE, udid |-> Some(U_tv),
                                          error |-> "none"])

\* a step whose invocation ran a build that timed out
TimedOutStep ==
    /\ nBuilds' = nBuilds + 1
    /\ build'[1].env.valid
    /\ build'[1].outcome.state = "resolved"
    /\ build'[1].outcome.value[1].timedOut

\* C30: a build whose execution timed out is reported with success = false and
\* recorded with success = false, also when its output has a success marker
\* and its exit code is 0, and it leaves the preferred configuration as it was.
C30_TimeoutNeverSuccess ==
    [][ TimedOutStep =>
          LET p == build'[1].args.projectPath
          IN  /\ ~build'[1].result.thrown
              /\ ~build'[1].result.response[1].success
              /\ ~build'[1].result.response[1].summary.success
              /\ ~build'[1].result.response[1].intelligence.configurationLearned
              /\ buildHistory'[p] = nextHistory(buildHistory[p], [success |-> FALSE])
              /\ preferredBuildConfig' = preferredBuildConfig ]_vars

\* a Release build that timed out after printing the success marker, with exit
\* code 0, has left the preferred Debug configuration in place
C30_Witness ==
    /\ ReturnedResponse
    /\ LatestRun.timedOut
    /\ LatestRun.code = 0
    /\ LatestRun.stdout = <<M_buildSucceeded>>
    /\ LatestResponse.summary.configuration = "Release"
    /\ preferredBuildConfig[build[1].args.projectPath] # None
    /\ preferredBuildConfig[build[1].args.projectPath][1].configuration = "Debug"

\* ---------------------------------------------------------------------------
\* C31: the order of events within one invocation

\* the place of call c among the calls of the latest invocation, 0 if it was
\* not made
CallPlace(b, c) ==
    IF c \in CallsMade(b)
    THEN CHOOSE i \in 1..Len(b[1].calls) : b[1].calls[i] = c
    ELSE 0

Before(b, c, d) ==
    CallPlace(b, c) # 0 /\ CallPlace(b, d) # 0 => CallPlace(b, c) < CallPlace(b, d)

\* C31: in every invocation the executor run comes before the extraction of
\* the summary, the summary before the store in the response cache, and the
\* store before the updates of the project cache (recordBuildResult) and of the
\* simulator cache (recordSimulatorUsage)
C31_StoreBeforeCacheUpdates ==
    [][ReturningStep =>
          /\ Before(build', "executeCommandStreaming", "extractBuildSummary")
          /\ Before(build', "extractBuildSummary", "responseCache.store")
          /\ Before(build', "responseCache.store", "recordBuildResult")
          /\ Before(build', "responseCache.store", "recordSimulatorUsage")]_vars

\* the part of C31 the code keeps: run, then summary, then the store, and the
\* summary before the cache updates
C31_RunSummaryStore ==
    [][ReturningStep =>
          /\ Before(build', "executeCommandStreaming", "extractBuildSummary")
          /\ Before(build', "extractBuildSummary", "responseCache.store")
          /\ Before(build', "extractBuildSummary", "recordBuildResult")
          /\ Before(build', "extractBuildSummary", "recordSimulatorUsage")
          /\ CallPlace(build', "responseCache.store") # 0]_vars

\* ---------------------------------------------------------------------------
\* C32: a handle stays retrievable until its entry expires, is evicted, deleted
\* or cleared

\* handle id is given up by this step: get would have returned its entry
\* before and does not after
GivenUp(id) == GetResult(cache, now, id) # None /\ GetResult(cache', now', id) = None

\* the ways the cache may give up the entry of handle id: it has expired, a
\* store has evicted it as the oldest beyond maxEntries, or delete(id) or
\* clear() has removed it
MayGiveUp(id) ==
    \/ Expired(Lookup(cache, id)[1], now')
    \/ /\ Len(issued') = Len(issued) + 1
       /\ Len(cache') = maxEntries
       /\ \A i \in 1..Len(cache') : cache'[i].timestamp >= Lookup(cache, id)[1].timestamp
    \/ load' = load /\ Len(issued') = Len(issued) /\ cache' = Remove(cache, id)
    \/ load' = load /\ Len(issued') = Len(issued) /\ cache' = <<>>

\* C32: a handle store has returned is given up only by expiry, eviction,
\* delete or clear; the completion of the startup load gives up none
C32_RetrievableUntilRemoved ==
    [][\A id \in 1..Len(issued) : GivenUp(id) => MayGiveUp(id)]_vars

\* the part of C32 the code keeps: every step other than the completion of
\* the load gives up a handle only in those ways
C32_RetrievableApartFromLoad ==
    [][load' = load => \A id \in 1..Len(issued) : GivenUp(id) => MayGiveUp(id)]_vars

\* ---------------------------------------------------------------------------
\* C33: a run killed on a fatal pattern is never a success

\* the step of an invocation whose run carries a fatalMatch
FatalStep ==
    /\ ReturningStep
    /\ build'[1].outcome.value[1].fatalMatch # None

\* C33: when the run carries a fatalMatch the response has success false, the
\* record added to the build history has success false, and the preferred
\* configuration stays as it was
C33_FatalNeverSuccess ==
    [][FatalStep =>
          /\ ~build'[1].result.response[1].success
          /\ LET h == buildHistory'[build'[1].args.projectPath]
             IN  ~h[Len(h)].success
          /\ preferredBuildConfig' = preferredBuildConfig]_vars

\* the part of C33 the code keeps: a fatal run is a success only with exit
\* code 0, a success marker, no error line and no timeout, and what is recorded
\* is what is reported
C33_FatalSuccessOnlyWithMarker ==
    [][FatalStep =>
          LET run == build'[1].outcome.value[1]
              h == buildHistory'[build'[1].args.projectPath]
              s == build'[1].result.response[1].success
          IN  /\ h[Len(h)].success = s
              /\ (~s => preferredBuildConfig' = preferredBuildConfig)
              /\ s => /\ run.code = 0
                      /\ ~run.timedOut
                      /\ extractBuildSummary(run.stdout, run.stderr, run.code).success]_vars

\* ---------------------------------------------------------------------------
\* C34: a physical-device SDK never gets a simulator destination

\* C34: with no explicit destination and the SDK of a physical device, the
\* resolved destination is never one of a simulator, whatever the cached
\* preference and the simulator cache hold
C34_DeviceSdkNeverSimulator ==
    (resolved # None /\ NoExplicit /\ params.sdk \in DeviceSdks)
        => \/ resolved[1].destination = None
           \/ ~includes(resolved[1].destination[1], S_Simulator)

\* the part of C34 the code keeps: for the SDK of a physical device the
\* destination is the cached one or none, and the simulator cache is never
\* asked
C34_DeviceSdkCachedOrNone ==
    (resolved # None /\ NoExplicit /\ params.sdk \in DeviceSdks)
        => /\ resolved[1].destination \in {None, Cached}
           /\ ~resolved[1].queried

\* ---------------------------------------------------------------------------
\* C35: isError mirrors the success field

\* C35: for every returned result, isError is true exactly when the success
\* field of the response is false, timed-out runs included
C35_IsErrorIffNotSuccess ==
    ReturnedResponse => (build[1].result.isError <=> ~LatestResponse.success)

\* the part of C35 the code keeps: the two agree for every run that did not
\* time out, and isError is never set for a response with success true
C35_IsErrorUnlessTimedOut ==
    ReturnedResponse =>
        /\ (~LatestRun.timedOut => (build[1].result.isError <=> ~LatestResponse.success))
        /\ (build[1].result.isError => ~LatestResponse.success)

\* ---------------------------------------------------------------------------
\* C36: simulatorUsageRecorded tells whether the usage was recorded

\* recordSimulatorUsage was called in the latest invocation
UsageRecorded == "recordSimulatorUsage" \in CallsMade(build)

\* C36: in a returned response intelligence.simulatorUsageRecorded is true
\* exactly when the invocation has called recordSimulatorUsage
C36_UsageFlagIffRecorded ==
    ReturnedResponse =>
        (LatestResponse.intelligence.simulatorUsageRecorded <=> UsageRecorded)

\* the part of C36 the code keeps: a recorded usage is always flagged, the
\* flag is set exactly for the destinations that contain 'Simulator', and
\* among these the usage is recorded exactly when an id of [A-F0-9-] follows
\* 'id='
C36_RecordedImpliesFlag ==
    ReturnedResponse =>
        LET d == LatestResponse.summary.destination
            flagged == LatestResponse.intelligence.simulatorUsageRecorded
        IN  /\ UsageRecorded => flagged
            /\ flagged <=> (d # None /\ includes(d[1], S_Simulator))
            /\ flagged => (UsageRecorded <=> UdidMatch(d[1]) # None)

\* ---------------------------------------------------------------------------
\* C37: a failed auto-install does not fail the build

\* the step at which auto-install fails, as the collaborators of the
\* invocation have it
InstallFailure(b) ==
    IF ~b[1].env.appPath THEN "Could not find .app bundle"
    ELSE IF b[1].args.simulatorUdid = None /\ b[1].env.bestSimulator = None
    THEN "No suitable simulator found"
    ELSE IF b[1].env.install # "ok" THEN "Installation failed"
    ELSE "none"

\* a step of an invocation that asked for the install, built successfully and
\* could not install
InstallFailedStep ==
    /\ nBuilds' = nBuilds + 1
    /\ build'[1].args.autoInstall
    /\ build'[1].outcome.state = "resolved"
    /\ LET run == build'[1].outcome.value[1]
       IN  buildSuccess(extractBuildSummary(run.stdout, run.stderr, run.code), run)
    /\ InstallFailure(build') # "none"

\* C37: when auto-install fails, for want of an app, of a simulator or by an
\* install error, the invocation still returns, its response has success true
\* and autoInstall with success false and the error, and the updates of the
\* project cache, the simulator cache and the response cache made for the
\* build stay
C37_InstallFailureKeepsBuild ==
    [][InstallFailedStep =>
          /\ ~build'[1].result.thrown
          /\ LET r == build'[1].result.response[1]
                 p == build'[1].args.projectPath
                 h == buildHistory'[p]
             IN  /\ r.success
                 /\ ~build'[1].result.isError
                 /\ r.autoInstall # None
                 /\ ~r.autoInstall[1].success
                 /\ r.autoInstall[1].error = InstallFailure(build')
                 /\ Len(h) > 0 /\ h[Len(h)].success
                 /\ preferredBuildConfig'[p] # None
                 /\ preferredBuildConfig'[p][1].destination = r.summary.destination
                 /\ Len(simulatorUsage') = Len(simulatorUsage) + 1
                 /\ r.buildId \in Ids(cache')
                 /\ r.buildId \notin Ids(cache)]_vars

\* a successful build whose install returned an error result: the response
\* carries the failure, and the build is in the history and in the cache
C37_Witness ==
    /\ ReturnedResponse
    /\ build[1].args.autoInstall
    /\ build[1].env.install = "isError"
    /\ LatestResponse.success
    /\ LatestResponse.autoInstall =
           Some([success |-> FALSE, udid |-> None, error |-> "Installation failed"])
    /\ "simctlInstallTool" \in CallsMade(build)
    /\ buildHistory[build[1].args.projectPath] # <<>>
    /\ LatestResponse.buildId \in Ids(cache)

\* ---------------------------------------------------------------------------
\* C38: at most one save timer is pending

\* C38: at any time at most one timer of persistStateDebounced is pending,
\* however store and clear interleave with the timers firing and with the
\* completion of a save in flight
C38_AtMostOneTimer == Cardinality(timers) <= 1

\* the part of C38 the code keeps: a second timer comes to be pending only
\* when the handle of the pending one has been nulled by the completion of a
\* save
C38_SecondTimerOnlyAfterNulledHandle ==
    [][(Cardinality(timers') > Cardinality(timers) /\ Cardinality(timers') > 1)
          => (saveStateTimeout = 0 /\ timers # {})]_vars

\* ---------------------------------------------------------------------------
\* C39: the content after the last mutation is eventually saved

\* the content the startup has left in the cache
LoadedContent ==
    IF load.status = "done" /\ load.data # None THEN cleanup(load.data[1], 0) ELSE <<>>

\* saveState has been called with the present content of the cache
ContentSaved == \E s \in saving : s.payload = cache

\* C39: with persistence enabled, once the mutating operations have stopped a
\* saveState call has been made, or is eventually made, with the content the
\* last of them left (a cache never changed since the startup has nothing to
\* save)
C39_LastContentSaved ==
    enabled => <>[](cache = LoadedContent \/ ContentSaved)

\* the part of C39 the code keeps: every store and clear arms a timer due
\* SaveDelay later, and whenever a timer is pending saveState is eventually
\* called with the content the cache has then
C39_ArmedTimerSaves ==
    /\ [][(enabled /\ nextTimer' # nextTimer)
             => \E t \in timers' : t.id = saveStateTimeout' /\ t.due = now' + SaveDelay]_vars
    /\ [][(enabled /\ (Len(issued') # Len(issued) \/ (cache # <<>> /\ cache' = <<>>
                                                     /\ ~\E id \in Handles : cache' = Remove(cache, id))))
             => nextTimer' # nextTimer]_vars
    /\ (timers # {}) ~> ContentSaved

\* ---------------------------------------------------------------------------
\* C40: every call settles, and settles once

Settled == promise.state # "pending"

\* the run has been cut short: the timeout has elapsed or a fatal pattern has
\* matched
CutShort == timedOut \/ fatalMatch # None

====
